---------------------------- MODULE Spec2Model ----------------------------
(***************************************************************************)
(* Lead Radar: the lead store and merge engine, the job registry and the   *)
(* request handlers of src/lead_radar_api.py, as a state machine.          *)
(*                                                                         *)
(* Python strings are tuples of one-character strings, so that lower(),    *)
(* strip(), replace() and urlparse() are computed character by character.  *)
(* A dict is a sequence of entries in insertion order.  Lead objects live  *)
(* in `heap`; LEADS maps a company id to a reference into it, so that a    *)
(* handler holding a reference to an object that has been replaced in      *)
(* LEADS writes to the replaced object, as in Python.                      *)
(***************************************************************************)
EXTENDS Integers, Sequences, FiniteSets, TLC

VARIABLES LEADS, heap, JOBS, pc, loc, resp, idA, idB, idOutA, idOutB,
          now, buckets, bheap, cache, robots_cache, respect_robots, robots_txt,
          frames, ret, wire, outcome

vars == <<LEADS, heap, JOBS, pc, loc, resp, idA, idB, idOutA, idOutB,
          now, buckets, bheap, cache, robots_cache, respect_robots, robots_txt,
          frames, ret, wire, outcome>>

apiVars == <<LEADS, heap, JOBS, pc, loc, resp>>

idVars == <<idA, idB, idOutA, idOutB>>

\* the HTTP client, the clock and the sites
httpVars == <<now, buckets, bheap, cache, robots_cache, respect_robots,
              robots_txt, frames, ret, wire, outcome>>

----------------------------------------------------------------------------
(* Bounds of the model.                                                    *)

\* number of request threads that serve handlers at the same time
NumThreads == 2

\* jobs the registry may hold before no further scan or export is started
MaxJobs == 1

\* scans started in the specification that holds scans only
MaxScans == 2

\* leading positions of a string whose letter case the id check varies
MaxCasePos == 1

\* whitespace characters the id check puts on each side of a name
MaxPad == 1

\* get calls made on the HTTP client from outside it
MaxCalls == 2

\* seconds the clock runs
MaxClock == 10

\* get frames a thread can nest before the interpreter raises RecursionError
MaxDepth == 3

\* the largest max_leads of a deep-enrichment request
MaxLeads == 2

----------------------------------------------------------------------------
(* Python values.                                                          *)

\* None in a field that holds an enumeration value or a reference
None == "None"

\* None in a field that holds a string (a tuple of characters)
NoneS == <<"None">>

UpperChars ==
  <<"A","B","C","D","E","F","G","H","I","J","K","L","M",
    "N","O","P","Q","R","S","T","U","V","W","X","Y","Z">>

LowerChars ==
  <<"a","b","c","d","e","f","g","h","i","j","k","l","m",
    "n","o","p","q","r","s","t","u","v","w","x","y","z">>

IsUpper(c) == \E i \in DOMAIN UpperChars : UpperChars[i] = c

IsLower(c) == \E i \in DOMAIN LowerChars : LowerChars[i] = c

lower_char(c) ==
  IF IsUpper(c)
  THEN LowerChars[CHOOSE i \in DOMAIN UpperChars : UpperChars[i] = c]
  ELSE c

upper_char(c) ==
  IF IsLower(c)
  THEN UpperChars[CHOOSE i \in DOMAIN LowerChars : LowerChars[i] = c]
  ELSE c

\* str.lower()
lower(s) == [i \in 1..Len(s) |-> lower_char(s[i])]

\* str.upper()
upper(s) == [i \in 1..Len(s) |-> upper_char(s[i])]

\* the characters str.strip() removes
IsSpace(c) == c \in {" ", "\t", "\n"}

RECURSIVE lstrip_set(_, _)
lstrip_set(s, cs) ==
  IF s # <<>> /\ Head(s) \in cs THEN lstrip_set(Tail(s), cs) ELSE s

RECURSIVE rstrip_set(_, _)
rstrip_set(s, cs) ==
  IF s # <<>> /\ s[Len(s)] \in cs
  THEN rstrip_set(SubSeq(s, 1, Len(s) - 1), cs)
  ELSE s

\* str.strip(chars)
strip_chars(s, cs) == rstrip_set(lstrip_set(s, cs), cs)

\* str.strip()
strip(s) == strip_chars(s, {" ", "\t", "\n"})

StartsWith(s, p) == Len(s) >= Len(p) /\ SubSeq(s, 1, Len(p)) = p

\* str.replace(old, new): non-overlapping occurrences, left to right
RECURSIVE replace(_, _, _)
replace(s, old, new) ==
  IF s = <<>> THEN <<>>
  ELSE IF StartsWith(s, old)
       THEN new \o replace(SubSeq(s, Len(old) + 1, Len(s)), old, new)
       ELSE <<Head(s)>> \o replace(Tail(s), old, new)

\* index of the first character of s that is in cs, Len(s)+1 when there is none
RECURSIVE FirstOf(_, _, _)
FirstOf(s, cs, i) ==
  IF i > Len(s) THEN Len(s) + 1
  ELSE IF s[i] \in cs THEN i ELSE FirstOf(s, cs, i + 1)

SchemeChars ==
  {UpperChars[i] : i \in DOMAIN UpperChars} \cup
  {LowerChars[i] : i \in DOMAIN LowerChars} \cup
  {"0","1","2","3","4","5","6","7","8","9","+","-","."}

\* urlsplit's scheme test: the text before the first ':' is a scheme when it
\* starts with a letter and holds scheme characters only
HasScheme(url) ==
  LET i == FirstOf(url, {":"}, 1)
  IN  /\ i <= Len(url)
      /\ i > 1
      /\ (IsUpper(url[1]) \/ IsLower(url[1]))
      /\ \A k \in 1..(i - 1) : url[k] \in SchemeChars

AfterScheme(url) ==
  IF HasScheme(url)
  THEN SubSeq(url, FirstOf(url, {":"}, 1) + 1, Len(url))
  ELSE url

\* urlparse(url).netloc: what follows "//" up to the first of "/", "?", "#"
netloc(url) ==
  LET rest == AfterScheme(url)
  IN  IF StartsWith(rest, <<"/", "/">>)
      THEN SubSeq(rest, 3, FirstOf(rest, {"/", "?", "#"}, 3) - 1)
      ELSE <<>>

\* `website or ""`
OrEmpty(s) == IF s = NoneS THEN <<>> ELSE s

\* hashlib.sha1(raw).hexdigest()[:16]: the digest prefix is taken to be
\* collision free, and an id is written as the text it is the digest of
sha1_16(raw) == raw

\* the host part with its letter case and its "www." kept
IdHost_keep_www(website, name) ==
  LET base == strip(OrEmpty(website))
  IN  IF base # <<>>
      THEN strip_chars(IF netloc(base) # <<>> THEN netloc(base) ELSE base, {"/"})
      ELSE replace(lower(strip(name)), <<" ">>, <<"-">>)

\* company_id_from, lines 98-103: the host part of the identity key
IdHost(website, name) ==
  LET base == lower(strip(OrEmpty(website)))
  IN  IF base # <<>>
      THEN strip_chars(
             replace(IF netloc(base) # <<>> THEN netloc(base) ELSE base,
                     <<"w","w","w",".">>, <<>>),
             {"/"})
      ELSE replace(lower(strip(name)), <<" ">>, <<"-">>)

company_id_from(website, name, country) ==
  sha1_16(IdHost(website, name) \o <<"|">> \o lower(strip(name))
            \o <<"|">> \o upper(country))


----------------------------------------------------------------------------
(* String constants of the program and of the inputs.                      *)

ETG == <<"E","T","G">>

UR == <<"U","R">>

SIEMENS == <<"S","I","E","M","E","N","S">>

BECKHOFF == <<"B","E","C","K","H","O","F","F">>

PI_PROFINET == <<"P","I","_","P","R","O","F","I","N","E","T">>

ODVA_ENIP == <<"O","D","V","A","_","E","N","I","P">>

ROS2 == <<"R","O","S","2">>

ALL == <<"A","L","L">>

DK == <<"D","K">>

SE == <<"S","E">>

Acme == <<"A","c","m","e">>

AcmeSite ==
  <<"h","t","t","p","s",":","/","/","w","w","w",".","a","c","m","e",".","d","k">>

ETG_URL ==
  <<"h","t","t","p","s",":","/","/","w","w","w",".","e","t","h","e","r","c",
    "a","t",".","o","r","g","/">>

UR_URL ==
  <<"h","t","t","p","s",":","/","/","w","w","w",".","u","n","i","v","e","r",
    "s","a","l","-","r","o","b","o","t","s",".","c","o","m","/">>

SIEMENS_URL ==
  <<"h","t","t","p","s",":","/","/","p","a","r","t","n","e","r","f","i","n",
    "d","e","r",".","s","i","e","m","e","n","s",".","c","o","m","/">>

BECKHOFF_URL ==
  <<"h","t","t","p","s",":","/","/","w","w","w",".","b","e","c","k","h","o",
    "f","f",".","c","o","m","/">>

PI_URL ==
  <<"h","t","t","p","s",":","/","/","w","w","w",".","p","r","o","f","i","b",
    "u","s",".","c","o","m","/">>

----------------------------------------------------------------------------
(* company_id_from called twice, on arguments that are varied between the  *)
(* calls.                                                                  *)

NotCalled == <<"NotCalled">>

IdWebsites == {NoneS, AcmeSite, <<"a","c","m","e",".","d","k","/">>}

IdNames == {<<"A"," ","b">>}

IdCountries == {DK, SE}

toggle_char(c) == IF IsUpper(c) THEN lower_char(c) ELSE upper_char(c)

\* where the host of a website starts: behind "//" when the text has a scheme
HostStart(w) ==
  IF HasScheme(w) /\ StartsWith(AfterScheme(w), <<"/", "/">>)
  THEN FirstOf(w, {":"}, 1) + 3
  ELSE 1

HasWww(w) ==
  StartsWith(lower(SubSeq(w, HostStart(w), Len(w))), <<"w","w","w",".">>)

AddWww(w) ==
  SubSeq(w, 1, HostStart(w) - 1) \o <<"w","w","w",".">>
    \o SubSeq(w, HostStart(w), Len(w))

DropWww(w) ==
  SubSeq(w, 1, HostStart(w) - 1) \o SubSeq(w, HostStart(w) + 4, Len(w))

LeadPad(s) == Len(s) - Len(lstrip_set(s, {" ", "\t", "\n"}))

TrailPad(s) == Len(s) - Len(rstrip_set(s, {" ", "\t", "\n"}))

IdFields == {"website", "name", "country"}

InitId ==
  /\ idA \in [website : IdWebsites, name : IdNames, country : IdCountries]
  /\ idB = idA
  /\ idOutA = NotCalled
  /\ idOutB = NotCalled

IdCallA ==
  /\ idOutA = NotCalled
  /\ idOutA' = company_id_from(idA.website, idA.name, idA.country)
  /\ UNCHANGED <<idA, idB, idOutB, apiVars, httpVars>>

IdCallB ==
  /\ idOutB = NotCalled
  /\ idOutB' = company_id_from(idB.website, idB.name, idB.country)
  /\ UNCHANGED <<idA, idB, idOutA, apiVars, httpVars>>

\* the second call's argument f with the case of one letter changed
IdVaryCase ==
  /\ idOutB = NotCalled
  /\ \E f \in IdFields :
       /\ idB[f] # NoneS
       /\ \E i \in 1..MaxCasePos :
            /\ i <= Len(idB[f])
            /\ idB' = [idB EXCEPT ![f] = [idB[f] EXCEPT ![i] = toggle_char(@)]]
  /\ UNCHANGED <<idA, idOutA, idOutB, apiVars, httpVars>>

\* the second call's argument f in upper case throughout
IdVaryUpper ==
  /\ idOutB = NotCalled
  /\ \E f \in IdFields :
       /\ idB[f] # NoneS
       /\ idB' = [idB EXCEPT ![f] = upper(@)]
  /\ UNCHANGED <<idA, idOutA, idOutB, apiVars, httpVars>>

\* whitespace put around the second call's name: a space before it, a tab
\* behind it
IdVaryPad ==
  /\ idOutB = NotCalled
  /\ \/ /\ LeadPad(idB.name) < MaxPad
        /\ idB' = [idB EXCEPT !.name = <<" ">> \o @]
     \/ /\ TrailPad(idB.name) < MaxPad
        /\ idB' = [idB EXCEPT !.name = @ \o <<"\t">>]
  /\ UNCHANGED <<idA, idOutA, idOutB, apiVars, httpVars>>

\* a leading "www." put before, or taken from, the second call's website host
IdVaryWww ==
  /\ idOutB = NotCalled
  /\ idB.website # NoneS
  /\ \/ /\ ~HasWww(idB.website)
        /\ idB' = [idB EXCEPT !.website = AddWww(@)]
     \/ /\ HasWww(idB.website)
        /\ idB' = [idB EXCEPT !.website = DropWww(@)]
  /\ UNCHANGED <<idA, idOutA, idOutB, apiVars, httpVars>>

\* another country for the second call
IdVaryCountry ==
  /\ idOutB = NotCalled
  /\ \E c \in IdCountries : idB' = [idB EXCEPT !.country = c]
  /\ UNCHANGED <<idA, idOutA, idOutB, apiVars, httpVars>>

----------------------------------------------------------------------------
(* Configuration (src/lead_radar_config.py) and the adapter registry.      *)

EU_COUNTRIES ==
  <<<<"A","T">>, <<"B","E">>, <<"B","G">>, <<"H","R">>, <<"C","Y">>, <<"C","Z">>,
    <<"D","K">>, <<"E","E">>, <<"F","I">>, <<"F","R">>, <<"D","E">>, <<"G","R">>,
    <<"H","U">>, <<"I","E">>, <<"I","T">>, <<"L","V">>, <<"L","T">>, <<"L","U">>,
    <<"M","T">>, <<"N","L">>, <<"P","L">>, <<"P","T">>, <<"R","O">>, <<"S","K">>,
    <<"S","I">>, <<"E","S">>, <<"S","E">>>>

EEA_EXTRA ==
  <<<<"N","O">>, <<"I","S">>, <<"L","I">>>>

UK_CH ==
  <<<<"U","K">>, <<"G","B">>, <<"C","H">>>>

DACH ==
  <<<<"D","E">>, <<"A","T">>, <<"C","H">>>>

NORDICS ==
  <<<<"D","K">>, <<"S","E">>, <<"N","O">>, <<"F","I">>, <<"I","S">>>>

BENELUX ==
  <<<<"B","E">>, <<"N","L">>, <<"L","U">>>>

IBERIA ==
  <<<<"E","S">>, <<"P","T">>>>

CEE ==
  <<<<"P","L">>, <<"C","Z">>, <<"S","K">>, <<"H","U">>, <<"R","O">>, <<"B","G">>,
    <<"S","I">>, <<"H","R">>, <<"L","T">>, <<"L","V">>, <<"E","E">>>>

\* config.REGION_EXPANSIONS: the region tokens
RegionKeys ==
  {<<"E","U">>,
   <<"E","U","_","E","E","A","_","P","L","U","S">>,
   <<"E","E","A">>,
   <<"D","A","C","H">>,
   <<"N","O","R","D","I","C","S">>,
   <<"B","E","N","E","L","U","X">>,
   <<"I","B","E","R","I","A">>,
   <<"C","E","E">>}

\* config.REGION_EXPANSIONS[cu]
REGION_EXPANSIONS(cu) ==
  CASE cu = <<"E","U">> -> EU_COUNTRIES
    [] cu = <<"E","U","_","E","E","A","_","P","L","U","S">> -> EU_COUNTRIES \o EEA_EXTRA \o UK_CH
    [] cu = <<"E","E","A">> -> EU_COUNTRIES \o EEA_EXTRA
    [] cu = <<"D","A","C","H">> -> DACH
    [] cu = <<"N","O","R","D","I","C","S">> -> NORDICS
    [] cu = <<"B","E","N","E","L","U","X">> -> BENELUX
    [] cu = <<"I","B","E","R","I","A">> -> IBERIA
    [] cu = <<"C","E","E">> -> CEE
    [] OTHER -> <<>>

\* config.MAX_RETRIES
MAX_RETRIES == 5

MAX_WORKERS == 12

\* config.WEIGHTS["signal"]
SIGNAL_WEIGHT == 40

\* config.WEIGHTS["stacks"].get(t, 0)
stack_weight(t) ==
  CASE t = "EtherCAT" -> 25
    [] t = "PROFINET" -> 20
    [] t = "EtherNet/IP" -> 18
    [] t = "ROS2" -> 12
    [] t = "UR" -> 10
    [] t = "TwinCAT" -> 8
    [] t = "TIA" -> 8
    [] t = "Studio5000" -> 8
    [] OTHER -> 0

\* list(ADAPTERS.keys())
ADAPTERS == <<ETG, UR, SIEMENS, BECKHOFF, PI_PROFINET, ODVA_ENIP, ROS2>>

Range(f) == {f[i] : i \in DOMAIN f}

\* the characters of the inputs in code point order, for str comparison
CodeOrder ==
  <<"\t", "\n", " ", "-", ".", "/", "0", "1", "2", "3", "4", "5", "6", "7",
    "8", "9", ":">> \o UpperChars \o <<"_">> \o LowerChars \o <<"|">>

ord(c) == CHOOSE i \in DOMAIN CodeOrder : CodeOrder[i] = c

\* a < b for str
RECURSIVE StrLess(_, _)
StrLess(a, b) ==
  IF b = <<>> THEN FALSE
  ELSE IF a = <<>> THEN TRUE
  ELSE IF Head(a) = Head(b) THEN StrLess(Tail(a), Tail(b))
  ELSE ord(Head(a)) < ord(Head(b))

\* sorted(set(xs)) for a list of str
RECURSIVE SortedSet(_)
SortedSet(S) ==
  IF S = {} THEN <<>>
  ELSE LET m == CHOOSE x \in S : \A y \in S \ {x} : StrLess(x, y)
       IN  <<m>> \o SortedSet(S \ {m})

\* start_scan, lines 467-471: the country tokens expanded, in request order
RECURSIVE expand_countries(_)
expand_countries(tokens) ==
  IF tokens = <<>> THEN <<>>
  ELSE LET cu == upper(strip(Head(tokens)))
       IN  (IF cu \in RegionKeys THEN REGION_EXPANSIONS(cu) ELSE <<cu>>)
             \o expand_countries(Tail(tokens))

SelectSeqIn(xs, S) ==
  LET F[i \in 0..Len(xs)] ==
        IF i = 0 THEN <<>>
        ELSE IF xs[i] \in S THEN Append(F[i - 1], xs[i]) ELSE F[i - 1]
  IN  F[Len(xs)]

\* start_scan, lines 475-478
expand_sources(req_sources) ==
  IF \E i \in DOMAIN req_sources : upper(req_sources[i]) = ALL
  THEN ADAPTERS
  ELSE SelectSeqIn(req_sources, Range(ADAPTERS))

\* start_scan, lines 498-500: one task per source and country, in submit order
task_grid(sources, countries) ==
  [i \in 1..(Len(sources) * Len(countries)) |->
     [src |-> sources[((i - 1) \div Len(countries)) + 1],
      country |-> countries[((i - 1) % Len(countries)) + 1]]]

Min(a, b) == IF a < b THEN a ELSE b

Max(a, b) == IF a > b THEN a ELSE b

RECURSIVE GCD(_, _)
GCD(a, b) == IF b = 0 THEN a ELSE GCD(b, a % b)

\* the float n / d, as a fraction in lowest terms
Frac(n, d) == [n |-> n \div GCD(n, d), d |-> d \div GCD(n, d)]

\* min(1.0, n / d)
Min1(n, d) == IF n > d THEN Frac(1, 1) ELSE Frac(n, d)

----------------------------------------------------------------------------
(* Leads (src/lead_radar_models.py) and the merge step.                    *)

\* upsert_lead_from_raw, lines 111-116: the stack tags a source implies
base_stacks(source) ==
  (IF source = ETG THEN <<"EtherCAT">> ELSE <<>>)
    \o (IF source = SIEMENS THEN <<"PROFINET", "TIA">> ELSE <<>>)
    \o (IF source = UR THEN <<"UR">> ELSE <<>>)
    \o (IF source = BECKHOFF THEN <<"EtherCAT", "TwinCAT">> ELSE <<>>)
    \o (IF source = PI_PROFINET THEN <<"PROFINET">> ELSE <<>>)

\* upsert_lead_from_raw, lines 110-114: the segment a source implies
default_segment(source) ==
  IF source = SIEMENS \/ source = UR THEN "SI" ELSE "OEM"

\* upsert_lead_from_raw, line 117, in hundredths
src_strength(source) ==
  IF source \in {ETG, SIEMENS, BECKHOFF, PI_PROFINET} THEN 90 ELSE 85

SourceHit(rc) ==
  [name |-> rc.source, strength |-> src_strength(rc.source),
   source_url |-> rc.source_url]

\* HttpUrl validation of Lead.website: an http or https URL with a host; the
\* slashes after the scheme may be missing
UrlScheme(w) == lower(SubSeq(w, 1, FirstOf(w, {":"}, 1) - 1))

UrlRest(w) == lstrip_set(AfterScheme(w), {"/"})

UrlHost(w) == SubSeq(UrlRest(w), 1, FirstOf(UrlRest(w), {"/", "?", "#"}, 1) - 1)

UrlPath(w) ==
  SubSeq(UrlRest(w), FirstOf(UrlRest(w), {"/", "?", "#"}, 1), Len(UrlRest(w)))

ValidHttpUrl(w) ==
  /\ HasScheme(w)
  /\ UrlScheme(w) \in {<<"h","t","t","p">>, <<"h","t","t","p","s">>}
  /\ UrlHost(w) # <<>>

\* the validated website as the Lead holds it: scheme and host in lower case,
\* the empty path written "/"
HttpUrl(w) ==
  IF w = NoneS THEN NoneS
  ELSE UrlScheme(w) \o <<":", "/", "/">> \o lower(UrlHost(w))
         \o (IF UrlPath(w) = <<>> THEN <<"/">> ELSE UrlPath(w))

\* models.Lead(...) raises ValidationError
LeadInvalid(rc) == rc.website # NoneS /\ ~ValidHttpUrl(rc.website)

\* upsert_lead_from_raw, lines 119-123: the Lead a first candidate creates;
\* context is <<>> for None and <<c>> for a CompanyContext c
NewLead(cid, rc) ==
  [company_id |-> cid, company_name |-> rc.name, country |-> rc.country,
   website |-> HttpUrl(rc.website), segment |-> default_segment(rc.source),
   stack_tags |-> base_stacks(rc.source), sources |-> <<SourceHit(rc)>>,
   score |-> 0, priority_class |-> None, contact_email |-> NoneS,
   contact_url |-> NoneS, reason |-> NoneS, pitch |-> NoneS,
   context |-> <<>>, contacts |-> <<>>, phone |-> NoneS]

\* LEADS.get(cid): a reference into heap, 0 for None
LeadsGet(cid) ==
  IF \E i \in DOMAIN LEADS : LEADS[i].cid = cid
  THEN LEADS[CHOOSE i \in DOMAIN LEADS : LEADS[i].cid = cid].ref
  ELSE 0

\* LEADS[cid] = ref: a present key keeps its place
LeadsPut(cid, ref) ==
  IF \E i \in DOMAIN LEADS : LEADS[i].cid = cid
  THEN [i \in DOMAIN LEADS |->
          IF LEADS[i].cid = cid THEN [cid |-> cid, ref |-> ref] ELSE LEADS[i]]
  ELSE Append(LEADS, [cid |-> cid, ref |-> ref])

\* `lead.segment = default_segment` done whatever the segment is
FillSegment_always(segment, default) == default

\* upsert_lead_from_raw, line 130
FillSegment(segment, default) == IF segment = None THEN default ELSE segment

\* the website of a later candidate always taken
FillWebsite_always(website, rc_website) ==
  IF OrEmpty(rc_website) # <<>> THEN rc_website ELSE website

\* upsert_lead_from_raw, line 127
FillWebsite(website, rc_website) ==
  IF website = NoneS /\ OrEmpty(rc_website) # <<>> THEN rc_website ELSE website

\* a tag is taken to be present always, so none is added on a merge
TagAbsent_never(t, stack_tags) == FALSE

\* upsert_lead_from_raw, line 129: `t not in lead.stack_tags`
TagAbsent(t, stack_tags) == t \notin Range(stack_tags)

\* the hit replaces the list
AppendHit_replace(sources, hit) == <<hit>>

\* upsert_lead_from_raw, line 126
AppendHit(sources, hit) == Append(sources, hit)

----------------------------------------------------------------------------
(* Jobs, request threads and their frames.                                 *)

Threads == 1..NumThreads

NoJob == [kind |-> "none", n |-> 0]

\* models.JobStatus(job_id, status): the other fields at their defaults
JobStatus(job_id, status) ==
  [job_id |-> job_id, status |-> status, progress |-> <<>>, found |-> 0,
   errors |-> 0, message |-> NoneS, params |-> NoneS]

JobIds == {JOBS[i].job_id : i \in DOMAIN JOBS}

\* the place of the first job, whatever the id asked for
JobsGet_first(job_id) == IF JOBS = <<>> THEN 0 ELSE 1

\* the place of JOBS.get(job_id), 0 for None
JobsGet(job_id) ==
  IF \E i \in DOMAIN JOBS : JOBS[i].job_id = job_id
  THEN CHOOSE i \in DOMAIN JOBS : JOBS[i].job_id = job_id
  ELSE 0

\* models.DeepEnrichRequest
DeepEnrichRequest(job_id, priorities, max_leads, max_pages, same_domain) ==
  [job_id |-> job_id, priorities |-> priorities, max_leads |-> max_leads,
   max_pages_per_lead |-> max_pages, same_domain_only |-> same_domain]

NoDeepRequest == DeepEnrichRequest(NoJob, {}, 0, 0, FALSE)

\* the frame of a thread that serves no request; got tells whether HTTP.get
\* returned a page for the lead handled last, calls counts the adapter calls
\* of every task and failed holds the tasks whose result carries an error
IdleLoc ==
  [job_id |-> NoJob, sources |-> <<>>, countries |-> <<>>, tasks |-> <<>>,
   collected |-> {}, found |-> 0, errors |-> 0, done_per_source |-> <<>>,
   progress |-> <<>>, src |-> NoneS, rows |-> <<>>, lead |-> 0, k |-> 0,
   li |-> 0, n0 |-> 0, out |-> <<>>, targets |-> <<>>,
   visited_global |-> {}, fetched |-> <<>>, req |-> NoDeepRequest,
   got |-> FALSE, calls |-> <<>>, failed |-> {}, raw |-> 0]

NoResp == [kind |-> "none", job_id |-> NoJob, status |-> None, body |-> <<>>]

\* the handler ends with an exception: the request is answered with an error
Raised(exc) == [kind |-> "error", job_id |-> NoJob, status |-> exc, body |-> <<>>]

JobAccepted(job_id, status) ==
  [kind |-> "accepted", job_id |-> job_id, status |-> status, body |-> <<>>]

InitApi ==
  /\ LEADS = <<>>
  /\ heap = <<>>
  /\ JOBS = <<>>
  /\ pc = [t \in Threads |-> "idle"]
  /\ loc = [t \in Threads |-> IdleLoc]
  /\ resp = [t \in Threads |-> NoResp]

----------------------------------------------------------------------------
(* The adapters (lines 265-441), by what a scan call may return.           *)

\* the URL a row of a source is found at
SourceUrl(source) ==
  CASE source = ETG -> ETG_URL
    [] source = UR -> UR_URL
    [] source = SIEMENS -> SIEMENS_URL
    [] source = BECKHOFF -> BECKHOFF_URL
    [] source = PI_PROFINET -> PI_URL
    [] OTHER -> NoneS

RawCompany(name, country, website, source) ==
  [name |-> name, country |-> country, website |-> website, source |-> source,
   source_url |-> SourceUrl(source)]

\* the lists of rows of distinct names: an adapter keeps one row per
\* (name, country)
RowLists(names, sites, country, source) ==
  LET Rows == {RawCompany(n, country, w, source) : n \in names, w \in sites}
      Lists == UNION {[1..k -> Rows] : k \in 0..Cardinality(names)}
  IN  {l \in Lists : \A i, j \in DOMAIN l : i # j => l[i].name # l[j].name}

\* adapter.scan(country, ...): ODVAAdapter and ROS2Adapter return []; the
\* others return the rows they parse, one per (name, country), and catch
\* every exception of a fetch
AdapterScan(names, sites, country, source) ==
  IF source \in {ODVA_ENIP, ROS2}
  THEN {<<>>}
  ELSE RowLists(names, sites, country, source)

----------------------------------------------------------------------------
(* start_scan, lines 459-515.                                              *)

\* lines 461-500: the job is registered as running and the tasks are
\* submitted; ThreadPoolExecutor(max_workers=0) raises ValueError
ScanStart(t, req) ==
  /\ pc[t] = "idle"
  /\ LET job_id == [kind |-> "scan", n |-> Len(JOBS) + 1]
         countries == SortedSet(Range(expand_countries(req.countries)))
         sources == expand_sources(req.sources)
         max_workers ==
           Min(MAX_WORKERS, Len(sources) * Max(1, Len(countries)))
     IN  /\ JOBS' = Append(JOBS,
                      [JobStatus(job_id, "running") EXCEPT !.params = req])
         /\ IF max_workers <= 0
            THEN /\ pc' = [pc EXCEPT ![t] = "idle"]
                 /\ loc' = [loc EXCEPT ![t] = IdleLoc]
                 /\ resp' = [resp EXCEPT ![t] = Raised("ValueError")]
            ELSE /\ pc' = [pc EXCEPT ![t] = "scan_loop"]
                 /\ loc' = [loc EXCEPT ![t] =
                      [IdleLoc EXCEPT
                         !.job_id = job_id,
                         !.sources = sources,
                         !.countries = countries,
                         !.tasks = task_grid(sources, countries),
                         !.calls =
                            [i \in DOMAIN task_grid(sources, countries) |-> 0],
                         !.done_per_source = [s \in Range(sources) |-> 0],
                         !.progress = [s \in Range(sources) |-> Frac(0, 1)]]]
                 /\ resp' = [resp EXCEPT ![t] = NoResp]
  /\ UNCHANGED <<LEADS, heap, idVars, httpVars>>

\* lines 484-485 and 503-504: the next completed task, in any completion
\* order; its adapter call returned rows
ScanCollect(t, names, sites) ==
  /\ pc[t] = "scan_loop"
  /\ \E i \in DOMAIN loc[t].tasks \ loc[t].collected :
       /\ loc[t].calls[i] < MAX_RETRIES
       /\ \E rows \in AdapterScan(names, sites, loc[t].tasks[i].country,
                                  loc[t].tasks[i].src) :
            loc' = [loc EXCEPT ![t].collected = @ \cup {i},
                               ![t].calls[i] = @ + 1,
                               ![t].src = loc[t].tasks[i].src,
                               ![t].rows = rows]
  /\ pc' = [pc EXCEPT ![t] = "scan_rows"]
  /\ UNCHANGED <<LEADS, heap, JOBS, resp, idVars, httpVars>>

\* adapter.scan when every HTTP.get raises (lines 276-297 and the like of
\* the other adapters): each except clause logs the url that is skipped and
\* the empty results are returned
AdapterScanOffline(source) == <<>>

\* lines 484-485 and 503-504: the next completed task while no fetch gets
\* through; its adapter call returned
ScanCollectOffline(t) ==
  /\ pc[t] = "scan_loop"
  /\ \E i \in DOMAIN loc[t].tasks \ loc[t].collected :
       /\ loc[t].calls[i] < MAX_RETRIES
       /\ loc' = [loc EXCEPT ![t].collected = @ \cup {i},
                             ![t].calls[i] = @ + 1,
                             ![t].src = loc[t].tasks[i].src,
                             ![t].rows =
                                AdapterScanOffline(loc[t].tasks[i].src)]
  /\ pc' = [pc EXCEPT ![t] = "scan_rows"]
  /\ UNCHANGED <<LEADS, heap, JOBS, resp, idVars, httpVars>>

\* lines 483-487: an adapter call of a task raises and the task sleeps
\* before its next attempt
ScanTaskRaise(t) ==
  /\ pc[t] = "scan_loop"
  /\ \E i \in DOMAIN loc[t].tasks \ loc[t].collected :
       /\ loc[t].calls[i] < MAX_RETRIES
       /\ loc' = [loc EXCEPT ![t].calls[i] = @ + 1]
  /\ UNCHANGED <<LEADS, heap, JOBS, pc, resp, idVars, httpVars>>

\* a failed task that is collected without being counted
ScanCollectFailed_uncounted(t) ==
  /\ pc[t] = "scan_loop"
  /\ \E i \in DOMAIN loc[t].tasks \ loc[t].collected :
       /\ loc[t].calls[i] = MAX_RETRIES
       /\ loc' = [loc EXCEPT ![t].collected = @ \cup {i},
                             ![t].failed = @ \cup {i},
                             ![t].src = loc[t].tasks[i].src,
                             ![t].rows = <<>>]
  /\ pc' = [pc EXCEPT ![t] = "scan_rows"]
  /\ UNCHANGED <<LEADS, heap, JOBS, resp, idVars, httpVars>>

\* lines 488 and 503-505: a task whose attempts all raised is collected
\* with no rows and the error of its last attempt
ScanCollectFailed(t) ==
  /\ pc[t] = "scan_loop"
  /\ \E i \in DOMAIN loc[t].tasks \ loc[t].collected :
       /\ loc[t].calls[i] = MAX_RETRIES
       /\ loc' = [loc EXCEPT ![t].collected = @ \cup {i},
                             ![t].failed = @ \cup {i},
                             ![t].errors = @ + 1,
                             ![t].src = loc[t].tasks[i].src,
                             ![t].rows = <<>>]
  /\ pc' = [pc EXCEPT ![t] = "scan_rows"]
  /\ UNCHANGED <<LEADS, heap, JOBS, resp, idVars, httpVars>>

\* lines 510-511: the rows of the task are merged
ScanTaskDone(t) ==
  /\ pc[t] = "scan_rows"
  /\ loc[t].rows = <<>>
  /\ LET src == loc[t].src
         done == loc[t].done_per_source[src] + 1
     IN  loc' = [loc EXCEPT
                   ![t].done_per_source = [@ EXCEPT ![src] = done],
                   ![t].progress =
                      [@ EXCEPT ![src] = Min1(done, Len(loc[t].countries))]]
  /\ pc' = [pc EXCEPT ![t] = "scan_loop"]
  /\ UNCHANGED <<LEADS, heap, JOBS, resp, idVars, httpVars>>

----------------------------------------------------------------------------
(* upsert_lead_from_raw, lines 107-131, called at line 508 for the first   *)
(* of the rows left.  Its steps are the points between which another       *)
(* thread may run: the lookup, the creation or the append, and each test   *)
(* and append of a stack tag.                                              *)

\* the candidate being merged
Rc(t) == Head(loc[t].rows)

Cid(rc) == company_id_from(rc.website, rc.name, rc.country)

\* lines 108-109
UpsertGet(t) ==
  /\ pc[t] = "scan_rows"
  /\ loc[t].rows # <<>>
  /\ loc' = [loc EXCEPT ![t].lead = LeadsGet(Cid(Rc(t)))]
  /\ pc' = [pc EXCEPT ![t] = "upsert"]
  /\ UNCHANGED <<LEADS, heap, JOBS, resp, idVars, httpVars>>

\* lines 118-124 and 131, then `found += 1` of line 509; a website that is
\* no http URL makes models.Lead raise, which ends the handler
UpsertCreate(t) ==
  /\ pc[t] = "upsert"
  /\ loc[t].lead = 0
  /\ IF LeadInvalid(Rc(t))
     THEN /\ pc' = [pc EXCEPT ![t] = "idle"]
          /\ loc' = [loc EXCEPT ![t] = IdleLoc]
          /\ resp' = [resp EXCEPT ![t] = Raised("ValidationError")]
          /\ UNCHANGED <<LEADS, heap>>
     ELSE /\ heap' = Append(heap, NewLead(Cid(Rc(t)), Rc(t)))
          /\ LEADS' = LeadsPut(Cid(Rc(t)), Len(heap) + 1)
          /\ loc' = [loc EXCEPT ![t].rows = Tail(@), ![t].found = @ + 1]
          /\ pc' = [pc EXCEPT ![t] = "scan_rows"]
          /\ UNCHANGED resp
  /\ UNCHANGED <<JOBS, idVars, httpVars>>

\* lines 126-127
UpsertMerge(t) ==
  /\ pc[t] = "upsert"
  /\ loc[t].lead # 0
  /\ heap' = [heap EXCEPT
                ![loc[t].lead].sources = AppendHit(@, SourceHit(Rc(t))),
                ![loc[t].lead].website = FillWebsite(@, Rc(t).website)]
  /\ loc' = [loc EXCEPT ![t].k = 1]
  /\ pc' = [pc EXCEPT ![t] = "up_tags"]
  /\ UNCHANGED <<LEADS, JOBS, resp, idVars, httpVars>>

\* line 129, the test
UpsertTagTest(t) ==
  /\ pc[t] = "up_tags"
  /\ loc[t].k <= Len(base_stacks(Rc(t).source))
  /\ IF TagAbsent(base_stacks(Rc(t).source)[loc[t].k],
                  heap[loc[t].lead].stack_tags)
     THEN /\ pc' = [pc EXCEPT ![t] = "up_tag_add"]
          /\ UNCHANGED loc
     ELSE /\ loc' = [loc EXCEPT ![t].k = @ + 1]
          /\ UNCHANGED pc
  /\ UNCHANGED <<LEADS, heap, JOBS, resp, idVars, httpVars>>

\* line 129, the append
UpsertTagAdd(t) ==
  /\ pc[t] = "up_tag_add"
  /\ heap' = [heap EXCEPT ![loc[t].lead].stack_tags =
                Append(@, base_stacks(Rc(t).source)[loc[t].k])]
  /\ loc' = [loc EXCEPT ![t].k = @ + 1]
  /\ pc' = [pc EXCEPT ![t] = "up_tags"]
  /\ UNCHANGED <<LEADS, JOBS, resp, idVars, httpVars>>

\* lines 130-131, then `found += 1` of line 509
UpsertReturn(t) ==
  /\ pc[t] = "up_tags"
  /\ loc[t].k > Len(base_stacks(Rc(t).source))
  /\ heap' = [heap EXCEPT ![loc[t].lead].segment =
                FillSegment(@, default_segment(Rc(t).source))]
  /\ loc' = [loc EXCEPT ![t].rows = Tail(@), ![t].found = @ + 1,
                        ![t].lead = 0, ![t].k = 0]
  /\ pc' = [pc EXCEPT ![t] = "scan_rows"]
  /\ UNCHANGED <<LEADS, JOBS, resp, idVars, httpVars>>

----------------------------------------------------------------------------
(* start_scan, line 513: the job record is written field by field once     *)
(* every task has been collected; line 515 returns.                        *)

JobIx(t) == JobsGet(loc[t].job_id)

ScanSetStatus(t) ==
  /\ pc[t] = "scan_loop"
  /\ loc[t].collected = DOMAIN loc[t].tasks
  /\ JOBS' = [JOBS EXCEPT ![JobIx(t)].status = "scanned"]
  /\ pc' = [pc EXCEPT ![t] = "scan_found"]
  /\ UNCHANGED <<LEADS, heap, loc, resp, idVars, httpVars>>

ScanSetFound(t) ==
  /\ pc[t] = "scan_found"
  /\ JOBS' = [JOBS EXCEPT ![JobIx(t)].found = loc[t].found]
  /\ pc' = [pc EXCEPT ![t] = "scan_errors"]
  /\ UNCHANGED <<LEADS, heap, loc, resp, idVars, httpVars>>

ScanSetErrors(t) ==
  /\ pc[t] = "scan_errors"
  /\ JOBS' = [JOBS EXCEPT ![JobIx(t)].errors = loc[t].errors]
  /\ pc' = [pc EXCEPT ![t] = "scan_progress"]
  /\ UNCHANGED <<LEADS, heap, loc, resp, idVars, httpVars>>

ScanReturn(t) ==
  /\ pc[t] = "scan_progress"
  /\ JOBS' = [JOBS EXCEPT ![JobIx(t)].progress = loc[t].progress]
  /\ resp' = [resp EXCEPT ![t] =
                JobAccepted(loc[t].job_id, JOBS[JobIx(t)].status)]
  /\ loc' = [loc EXCEPT ![t] = IdleLoc]
  /\ pc' = [pc EXCEPT ![t] = "idle"]
  /\ UNCHANGED <<LEADS, heap, idVars, httpVars>>

----------------------------------------------------------------------------
(* Pages, by what the page functions find in them.                         *)

RECURSIVE Contains(_, _)
Contains(s, sub) ==
  IF Len(s) < Len(sub) THEN FALSE
  ELSE StartsWith(s, sub) \/ Contains(Tail(s), sub)

\* enrich, line 564: the directory domains a discovered website must not hold
DirectoryDomains ==
  {<<"e","t","h","e","r","c","a","t",".","o","r","g">>,
   <<"u","n","i","v","e","r","s","a","l","-","r","o","b","o","t","s",".","c","o","m">>,
   <<"s","i","e","m","e","n","s",".","c","o","m">>,
   <<"p","a","r","t","n","e","r","f","i","n","d","e","r",".","s","i","e","m","e","n","s",".","c","o","m">>,
   <<"b","e","c","k","h","o","f","f",".","c","o","m">>,
   <<"p","r","o","f","i","b","u","s",".","c","o","m">>}

\* list.append(t) for each t of ts that the list does not hold
RECURSIVE AppendMissing(_, _)
AppendMissing(xs, ts) ==
  IF ts = <<>> THEN xs
  ELSE AppendMissing(IF Head(ts) \in Range(xs) THEN xs ELSE Append(xs, Head(ts)),
                     Tail(ts))

\* detect_stacks_extended, lines 246-261; `text` is the set of the
\* config.REGEX names that match the page text
detect_stacks_extended(text) ==
  LET direct ==
        (IF "ethercat" \in text THEN <<"EtherCAT">> ELSE <<>>)
          \o (IF "profinet" \in text THEN <<"PROFINET">> ELSE <<>>)
          \o (IF "ethernetip" \in text THEN <<"EtherNet/IP">> ELSE <<>>)
          \o (IF "ros2" \in text THEN <<"ROS2">> ELSE <<>>)
          \o (IF "twincat" \in text THEN <<"TwinCAT">> ELSE <<>>)
          \o (IF "tia" \in text THEN <<"TIA">> ELSE <<>>)
          \o (IF "studio5000" \in text THEN <<"Studio5000">> ELSE <<>>)
      generic ==
        IF "fieldbus_generic" \in text
        THEN AppendMissing(direct, <<"PROFINET", "EtherNet/IP">>)
        ELSE direct
  IN  IF "motion_plc" \in text
      THEN AppendMissing(generic, <<"TwinCAT", "TIA", "Studio5000">>)
      ELSE generic

\* urljoin(base, href) for an absolute href, a path from the root and a
\* relative path
urljoin(base, href) ==
  IF HasScheme(href) THEN href
  ELSE IF StartsWith(href, <<"/">>)
  THEN SubSeq(base, 1, FirstOf(base, {":"}, 1)) \o <<"/", "/">>
         \o netloc(base) \o href
  ELSE LET cut == CHOOSE i \in 0..Len(base) :
                    /\ i = 0 \/ base[i] = "/"
                    /\ \A j \in (i + 1)..Len(base) : base[j] # "/"
       IN  SubSeq(base, 1, cut) \o href

\* models.Contact; role and page_url are left out
Contact(name, email, linkedin) ==
  [name |-> name, email |-> email, linkedin |-> linkedin]

\* a page by what the handlers read off it: the config.REGEX names that match
\* its text, its contact link, its first absolute link, its first e-mail
\* address, and for the deep pass the persons of its JSON-LD and team
\* sections, the sameAs links of its JSON-LD organisations, its first phone
\* number, the size its JSON-LD gives, and the partners, sector headlines,
\* languages and project headlines found on it
BlankPage ==
  [text |-> {}, contact |-> NoneS, link |-> NoneS, email |-> NoneS,
   ok |-> TRUE, persons |-> <<>>, same_as |-> <<>>, phone |-> NoneS,
   size |-> NoneS, partners |-> <<>>, sectors |-> <<>>, languages |-> <<>>,
   projects |-> <<>>]

\* fetch(url) returned "": the request failed
NoPage == [BlankPage EXCEPT !.ok = FALSE]

\* a page that names ROS 2, links a contact page and links the company's site
PageSite ==
  [BlankPage EXCEPT !.text = {"ros2"},
                    !.contact = <<"/","c","o","n","t","a","c","t">>,
                    !.link = AcmeSite]

\* a directory page: fieldbus and PLC words, a link back to the directory and
\* an e-mail address
PageDirectory ==
  [BlankPage EXCEPT !.text = {"ethercat", "motion_plc"}, !.link = ETG_URL,
                    !.email = <<"a","@","b",".","d","k">>]

\* a contact page with an e-mail address
PageContact == [BlankPage EXCEPT !.email = <<"i","@","c",".","d","k">>]

\* a response with a status that is not 2xx: HTTP.get raises, though the
\* response has a body that names ROS 2 and links a contact page
PageError == [PageSite EXCEPT !.ok = FALSE]

\* a fetch that takes the body of any response
fetch_body(page) == [page EXCEPT !.ok = TRUE]

\* fetch, lines 519-521 and 587-589: the page HTTP.get returns, "" when it
\* raises
fetch(page) == IF page.ok THEN page ELSE NoPage

\* what the fetch for a lead may return: nothing, or the page
Pages == {NoPage, PageSite}

\* the same with the response that is no 2xx
DeepPages == {NoPage, PageError, PageSite}

\* what the fetch of the contact link returns
ContactPages == {PageContact}

\* `not s` for an optional str
Falsy(s) == s = NoneS \/ s = <<>>

----------------------------------------------------------------------------
(* enrich, lines 517-583.                                                  *)

\* lines 524-529: some URL of the lead can be asked for
HasUrl(lead) ==
  \/ \E i \in DOMAIN lead.sources : ~Falsy(lead.sources[i].source_url)
  \/ ~Falsy(lead.website)

\* line 543
ContactBase(lead) ==
  IF lead.sources # <<>>
  THEN IF ~Falsy(lead.sources[1].source_url)
       THEN lead.sources[1].source_url ELSE lead.website
  ELSE lead.website

\* the discovered website is kept whatever the lead holds
DiscoverWebsite_always(website, link) ==
  IF link # NoneS /\ \A d \in DirectoryDomains : ~Contains(link, d)
  THEN link ELSE website

\* lines 560-566
DiscoverWebsite(website, link) ==
  IF Falsy(website) /\ link # NoneS
       /\ \A d \in DirectoryDomains : ~Contains(link, d)
  THEN link ELSE website

\* lines 535-577 for one lead, given the page fetched for it and the page
\* fetched for its contact link
\* a field that takes every value found
FirstFound_last(old, new) == new

\* `if not lead.contact_url:`, `not lead.contact_email`, `if not lead.phone:`
\* (lines 535, 547, 569 and 673): a field is written only while it is empty
FirstFound(old, new) == IF old = NoneS \/ old = <<>> THEN new ELSE old

EnrichedLead(lead, page, cpage) ==
  LET follow == Falsy(lead.contact_url) /\ page.contact # NoneS
      email1 ==
        IF follow /\ cpage.ok /\ cpage.email # NoneS
        THEN FirstFound(lead.contact_email, cpage.email)
        ELSE lead.contact_email
      email2 ==
        IF page.email # NoneS THEN FirstFound(email1, page.email) ELSE email1
  IN  [lead EXCEPT
         !.contact_url =
            IF page.contact # NoneS
            THEN FirstFound(@, urljoin(ContactBase(lead), page.contact))
            ELSE @,
         !.contact_email = email2,
         !.stack_tags = AppendMissing(@, detect_stacks_extended(page.text)),
         !.website = DiscoverWebsite(@, page.link)]

\* line 522: the iteration of LEADS.values() begins
EnrichStart(t, job_id) ==
  /\ pc[t] = "idle"
  /\ loc' = [loc EXCEPT ![t] =
               [IdleLoc EXCEPT !.job_id = job_id, !.li = 1, !.n0 = Len(LEADS)]]
  /\ pc' = [pc EXCEPT ![t] = "enrich_loop"]
  /\ resp' = [resp EXCEPT ![t] = NoResp]
  /\ UNCHANGED <<LEADS, heap, JOBS, idVars, httpVars>>

\* the dict iterator raises RuntimeError when the dict has changed size
EnrichRaise(t) ==
  /\ pc[t] = "enrich_loop"
  /\ Len(LEADS) # loc[t].n0
  /\ pc' = [pc EXCEPT ![t] = "idle"]
  /\ loc' = [loc EXCEPT ![t] = IdleLoc]
  /\ resp' = [resp EXCEPT ![t] = Raised("RuntimeError")]
  /\ UNCHANGED <<LEADS, heap, JOBS, idVars, httpVars>>

\* lines 523-577: one lead, with the page fetched for it and the page fetched
\* for its contact link; NoPage is a fetch that failed
EnrichLead(t, pages, cpages) ==
  /\ pc[t] = "enrich_loop"
  /\ Len(LEADS) = loc[t].n0
  /\ loc[t].li <= Len(LEADS)
  /\ LET ref == LEADS[loc[t].li].ref
     IN  \E page \in IF HasUrl(heap[ref]) THEN pages ELSE {NoPage} :
           \E cpage \in cpages :
             /\ heap' = [heap EXCEPT ![ref] =
                           IF fetch(page).ok
                           THEN EnrichedLead(@, fetch(page), fetch(cpage))
                           ELSE @]
             /\ loc' = [loc EXCEPT ![t].li = @ + 1, ![t].got = page.ok]
  /\ UNCHANGED <<LEADS, JOBS, pc, resp, idVars, httpVars>>

\* lines 579-583: the job the request names, if there is one, is marked
EnrichJob(t) ==
  /\ pc[t] = "enrich_loop"
  /\ Len(LEADS) = loc[t].n0
  /\ loc[t].li > Len(LEADS)
  /\ JOBS' = IF JobIx(t) # 0
             THEN [JOBS EXCEPT ![JobIx(t)].status = "enriched"]
             ELSE JOBS
  /\ resp' = [resp EXCEPT ![t] = JobAccepted(loc[t].job_id, "enriched")]
  /\ loc' = [loc EXCEPT ![t] = IdleLoc]
  /\ pc' = [pc EXCEPT ![t] = "idle"]
  /\ UNCHANGED <<LEADS, heap, idVars, httpVars>>

----------------------------------------------------------------------------
(* enrich_deep, lines 586-705.  last_seen is left out.                     *)

\* list.sort and sorted, which keep the order of elements that compare
\* equal: the place of xs[i] is behind the elements that are before it and
\* the earlier ones that are not after it
SortBy(xs, Before(_, _)) ==
  LET place(i) ==
        1 + Cardinality({j \in DOMAIN xs :
                           \/ Before(xs[j], xs[i])
                           \/ ~Before(xs[i], xs[j]) /\ j < i})
  IN  [k \in DOMAIN xs |-> xs[CHOOSE i \in DOMAIN xs : place(i) = k]]

\* targets sorted by rising score
TargetBefore_rising(a, b) == heap[a].score < heap[b].score

\* line 592: the key (-score, country, company_name) of lead a is less than
\* that of lead b
TargetBefore(a, b) ==
  \/ heap[a].score > heap[b].score
  \/ /\ heap[a].score = heap[b].score
     /\ StrLess(heap[a].country, heap[b].country)
  \/ /\ heap[a].score = heap[b].score
     /\ heap[a].country = heap[b].country
     /\ StrLess(heap[a].company_name, heap[b].company_name)

\* lines 591-593
DeepTargets(req) ==
  LET picked == SelectSeqIn([i \in DOMAIN LEADS |-> LEADS[i].ref],
                            {r \in DOMAIN heap :
                               heap[r].priority_class \in req.priorities})
      sorted == SortBy(picked, TargetBefore)
  IN  SubSeq(sorted, 1, Min(req.max_leads, Len(sorted)))

\* lines 597-601
BaseUrls(lead) ==
  LET hits == SelectSeq(lead.sources, LAMBDA h : ~Falsy(h.source_url))
  IN  [i \in DOMAIN hits |-> hits[i].source_url]
        \o (IF Falsy(lead.website) THEN <<>> ELSE <<lead.website>>)

\* candidate_links, lines 152-165, with score_link in hundredths: the
\* contact link of a page scores 0.95, its other link 0
candidate_links(base_url, page) ==
  IF ~page.ok THEN <<>>
  ELSE (IF page.contact = NoneS THEN <<>>
        ELSE <<[score |-> 95, url |-> urljoin(base_url, page.contact)]>>)
        \o (IF page.link = NoneS \/ urljoin(base_url, page.contact) = page.link
            THEN <<>>
            ELSE <<[score |-> 0, url |-> page.link]>>)

ScoredBefore(a, b) == a.score > b.score

\* lines 611-615 and 648: the links of the base pages fetched, best first
RECURSIVE ScoredLinks(_, _)
ScoredLinks(urls, page) ==
  IF urls = <<>> THEN <<>>
  ELSE candidate_links(Head(urls), page) \o ScoredLinks(Tail(urls), page)

\* the links gone through with a budget that only a fetched page uses up
RECURSIVE VisitLinks_unbounded(_, _, _, _)
VisitLinks_unbounded(links, acc, lead, req) ==
  IF links = <<>> THEN acc
  ELSE LET url == Head(links).url
           skip ==
             \/ /\ req.same_domain_only
                /\ ~Falsy(lead.website)
                /\ netloc(url) # <<>>
                /\ netloc(url) # netloc(lead.website)
             \/ url \in acc.visited_local
             \/ url \in acc.visited_global
       IN  VisitLinks_unbounded(Tail(links),
                      IF skip THEN acc
                      ELSE [visited_local |-> acc.visited_local \cup {url},
                            visited_global |-> acc.visited_global \cup {url},
                            fetched |-> Append(acc.fetched, url)],
                      lead, req)

\* lines 649-662: the ranked links are gone through; acc holds
\* visited_local, visited_global and the urls handed to fetch
RECURSIVE VisitLinks(_, _, _, _)
VisitLinks(links, acc, lead, req) ==
  IF links = <<>> \/ Cardinality(acc.visited_local) >= req.max_pages_per_lead
  THEN acc
  ELSE LET url == Head(links).url
           skip ==
             \/ /\ req.same_domain_only
                /\ ~Falsy(lead.website)
                /\ netloc(url) # <<>>
                /\ netloc(url) # netloc(lead.website)
             \/ url \in acc.visited_local
             \/ url \in acc.visited_global
       IN  VisitLinks(Tail(links),
                      IF skip THEN acc
                      ELSE [visited_local |-> acc.visited_local \cup {url},
                            visited_global |-> acc.visited_global \cup {url},
                            fetched |-> Append(acc.fetched, url)],
                      lead, req)

Truthy(s) == ~Falsy(s)

\* list[-n:] for n > 0
Prefix_last(xs, n) == SubSeq(xs, Len(xs) - Min(n, Len(xs)) + 1, Len(xs))

\* list[:n]
Prefix(xs, n) == SubSeq(xs, 1, Min(n, Len(xs)))

\* models.CompanyContext(); technologies, which is kept as sorted(set(...)),
\* is a set
CompanyContext ==
  [size_hint |-> NoneS, sectors |-> <<>>, technologies |-> {},
   partners |-> <<>>, recent_projects |-> <<>>, languages |-> <<>>]

\* extract_contacts_from_soup, lines 183-218: the persons of the page, then
\* its e-mail address if no person has it, 30 at most
extract_contacts_from_soup(page) ==
  Prefix(page.persons
           \o (IF page.email # NoneS
                    /\ \A i \in DOMAIN page.persons :
                         page.persons[i].email # page.email
               THEN <<Contact(NoneS, page.email, NoneS)>> ELSE <<>>),
         30)

\* a test that finds no contact in the list
ContactKnown_never(c, contacts) == FALSE

\* lines 644 and 669: the list holds a contact of the same e-mail address,
\* linkedin link or name
ContactKnown(c, contacts) ==
  \E i \in DOMAIN contacts :
    \/ Truthy(c.email) /\ contacts[i].email = c.email
    \/ Truthy(c.linkedin) /\ contacts[i].linkedin = c.linkedin
    \/ Truthy(c.name) /\ contacts[i].name = c.name

\* lines 643-646 and 668-671
RECURSIVE AddContacts(_, _)
AddContacts(contacts, cs) ==
  IF cs = <<>> THEN contacts
  ELSE AddContacts(IF ContactKnown(Head(cs), contacts) THEN contacts
                   ELSE Append(contacts, Head(cs)),
                   Tail(cs))

LinkedInHost == <<"l","i","n","k","e","d","i","n",".","c","o","m">>

\* lines 631-633: the linkedin links among the sameAs links
RECURSIVE AddSameAs(_, _)
AddSameAs(contacts, same_as) ==
  IF same_as = <<>> THEN contacts
  ELSE AddSameAs(
         IF /\ Contains(Head(same_as), LinkedInHost)
            /\ \A i \in DOMAIN contacts : contacts[i].linkedin # Head(same_as)
         THEN Append(contacts, Contact(NoneS, NoneS, Head(same_as)))
         ELSE contacts,
         Tail(same_as))

\* lines 686-690: the project headlines, while the list is shorter than 20
RECURSIVE AddProjects(_, _)
AddProjects(recent_projects, titles) ==
  IF titles = <<>> THEN recent_projects
  ELSE AddProjects(IF Len(recent_projects) < 20
                        /\ Head(titles) \notin Range(recent_projects)
                   THEN Append(recent_projects, Head(titles))
                   ELSE recent_projects,
                   Tail(titles))

\* lines 611-646: what a base page adds to the lead
BasePage(lead, page) ==
  LET c == lead.context[1]
  IN  [lead EXCEPT
         !.stack_tags = AppendMissing(@, detect_stacks_extended(page.text)),
         !.contacts = AddContacts(AddSameAs(@, page.same_as),
                                  extract_contacts_from_soup(page)),
         !.context =
            <<[c EXCEPT
                 !.size_hint = IF Truthy(page.size) /\ Falsy(@)
                               THEN page.size ELSE @,
                 !.languages = AppendMissing(@, page.languages),
                 !.partners = AppendMissing(@, page.partners),
                 !.sectors = AppendMissing(@, page.sectors)]>>]

\* lines 611-646: the base pages fetched, one after the other
RECURSIVE BasePages(_, _, _)
BasePages(lead, urls, page) ==
  IF urls = <<>> \/ ~page.ok THEN lead
  ELSE BasePages(BasePage(lead, page), Tail(urls), page)

\* lines 661-690: what the page of a ranked link adds to the lead
LinkPage(lead, page) ==
  LET c == lead.context[1]
  IN  [lead EXCEPT
         !.stack_tags = AppendMissing(@, detect_stacks_extended(page.text)),
         !.contacts = AddContacts(@, extract_contacts_from_soup(page)),
         !.phone = IF page.phone # NoneS THEN FirstFound(@, page.phone) ELSE @,
         !.context =
            <<[c EXCEPT
                 !.languages = AppendMissing(@, page.languages),
                 !.partners = AppendMissing(@, page.partners),
                 !.sectors = AppendMissing(@, page.sectors),
                 !.recent_projects = AddProjects(@, page.projects)]>>]

\* lines 649-690: the pages of the ranked links fetched, n of them
RECURSIVE LinkPages(_, _, _)
LinkPages(lead, n, page) ==
  IF n = 0 \/ ~page.ok THEN lead
  ELSE LinkPages(LinkPage(lead, page), n - 1, page)

\* the technologies are gathered and no list is cut
CutLists_uncut(lead) ==
  LET c == lead.context[1]
  IN  [lead EXCEPT
         !.context =
            <<[c EXCEPT !.technologies = @ \cup Range(lead.stack_tags)]>>]

\* lines 692-697: the lists are cut and the technologies are gathered
CutLists(lead) ==
  LET c == lead.context[1]
  IN  [lead EXCEPT
         !.contacts = Prefix(@, 50),
         !.context =
            <<[c EXCEPT
                 !.partners = Prefix(@, 25),
                 !.sectors = Prefix(@, 25),
                 !.recent_projects = Prefix(@, 25),
                 !.technologies = @ \cup Range(lead.stack_tags)]>>]

\* the digits of a count
Digits(n) ==
  CASE n = 0 -> "0" [] n = 1 -> "1" [] n = 2 -> "2" [] n = 3 -> "3"
    [] n = 4 -> "4" [] OTHER -> "n"

\* lines 591-594: the targets are chosen
DeepStart(t, req) ==
  /\ pc[t] = "idle"
  /\ loc' = [loc EXCEPT ![t] =
               [IdleLoc EXCEPT !.job_id = req.job_id, !.req = req, !.li = 1,
                               !.targets = DeepTargets(req)]]
  /\ pc' = [pc EXCEPT ![t] = "deep_loop"]
  /\ resp' = [resp EXCEPT ![t] = NoResp]
  /\ UNCHANGED <<LEADS, heap, JOBS, idVars, httpVars>>

\* lines 596-698 for one target: every base page fetched comes back as
\* `page`, every ranked link fetched as `cpage`
DeepLead(t, pages, cpages) ==
  /\ pc[t] = "deep_loop"
  /\ loc[t].li <= Len(loc[t].targets)
  /\ LET ref == loc[t].targets[loc[t].li]
         lead == heap[ref]
         base_urls == BaseUrls(lead)
         pages_to_visit ==
           SelectSeq(base_urls, LAMBDA u : u \notin loc[t].visited_global)
     IN  IF base_urls = <<>>
         THEN /\ loc' = [loc EXCEPT ![t].li = @ + 1, ![t].got = FALSE]
              /\ UNCHANGED heap
         ELSE \E page0 \in pages : \E cpage0 \in cpages :
                LET page == fetch(page0)
                    cpage == fetch(cpage0)
                    scored == SortBy(ScoredLinks(pages_to_visit, page),
                                     ScoredBefore)
                    acc == VisitLinks(scored,
                                      [visited_local |-> {},
                                       visited_global |-> loc[t].visited_global,
                                       fetched |->
                                         loc[t].fetched \o pages_to_visit],
                                      lead, loc[t].req)
                    lead0 == IF lead.context = <<>>
                             THEN [lead EXCEPT !.context = <<CompanyContext>>]
                             ELSE lead
                    lead1 == BasePages(lead0, pages_to_visit, page)
                    lead2 == LinkPages(lead1, Cardinality(acc.visited_local),
                                       cpage)
                IN  /\ heap' = [heap EXCEPT ![ref] = CutLists(lead2)]
                    /\ loc' = [loc EXCEPT
                                 ![t].li = @ + 1,
                                 ![t].got = page0.ok /\ pages_to_visit # <<>>,
                                 ![t].visited_global = acc.visited_global,
                                 ![t].fetched = acc.fetched]
  /\ UNCHANGED <<LEADS, JOBS, pc, resp, idVars, httpVars>>

\* lines 700-705: the job the request names, if there is one, is marked
DeepJob(t) ==
  /\ pc[t] = "deep_loop"
  /\ loc[t].li > Len(loc[t].targets)
  /\ JOBS' = IF JobIx(t) # 0
             THEN [JOBS EXCEPT
                     ![JobIx(t)].status = "enriched",
                     ![JobIx(t)].message =
                        (IF @ = NoneS THEN <<>> ELSE @)
                          \o <<" deep_enrich targets=",
                               Digits(Len(loc[t].targets))>>]
             ELSE JOBS
  /\ resp' = [resp EXCEPT ![t] = JobAccepted(loc[t].job_id, "enriched")]
  /\ loc' = [loc EXCEPT ![t] = IdleLoc]
  /\ pc' = [pc EXCEPT ![t] = "idle"]
  /\ UNCHANGED <<LEADS, heap, idVars, httpVars>>

----------------------------------------------------------------------------
(* score, lines 707-734.                                                   *)

\* the strengths of all the hits added up
RECURSIVE MaxStrength_sum(_)
MaxStrength_sum(sources) ==
  IF sources = <<>> THEN 0
  ELSE Head(sources).strength + MaxStrength_sum(Tail(sources))

\* max([s.strength for s in sources], default=0)
MaxStrength(sources) ==
  IF sources = <<>> THEN 0
  ELSE CHOOSE m \in {sources[i].strength : i \in DOMAIN sources} :
         \A i \in DOMAIN sources : sources[i].strength <= m

\* stack_points, lines 133-134
RECURSIVE stack_points(_)
stack_points(stack_tags) ==
  IF stack_tags = <<>> THEN 0
  ELSE stack_weight(Head(stack_tags)) + stack_points(Tail(stack_tags))

\* lines 710-713; the strength is in hundredths
RawScore(lead) ==
  Max(0, Min(100, ((MaxStrength(lead.sources) * SIGNAL_WEIGHT) \div 100)
                    + stack_points(lead.stack_tags)))

\* line 715
PriorityOf(raw) == IF raw >= 70 THEN "HOT" ELSE IF raw >= 45 THEN "WARM" ELSE "COLD"

HasSource(lead, name) == \E i \in DOMAIN lead.sources : lead.sources[i].name = name

HasTag(lead, tag) == tag \in Range(lead.stack_tags)

\* the labels put behind the reason the lead already has
Reasons_appended(lead) ==
  (IF lead.reason = NoneS THEN <<>> ELSE lead.reason)
    \o (IF HasTag(lead, "ROS2") THEN <<"ROS2 present">> ELSE <<"Relevance match">>)

\* lines 716-727: the labels joined by "; "
Reasons(lead) ==
  LET labels ==
        (IF HasTag(lead, "EtherCAT") \/ HasTag(lead, "PROFINET")
              \/ HasTag(lead, "EtherNet/IP")
         THEN <<"Fieldbus match">> ELSE <<>>)
          \o (IF HasTag(lead, "ROS2") THEN <<"ROS2 present">> ELSE <<>>)
          \o (IF HasTag(lead, "TwinCAT") THEN <<"TwinCAT">> ELSE <<>>)
          \o (IF HasTag(lead, "TIA") THEN <<"TIA Portal">> ELSE <<>>)
          \o (IF HasTag(lead, "Studio5000") THEN <<"Studio 5000">> ELSE <<>>)
          \o (IF HasSource(lead, ETG) THEN <<"Listed on ETG">> ELSE <<>>)
          \o (IF HasSource(lead, SIEMENS) THEN <<"Siemens partner">> ELSE <<>>)
          \o (IF HasSource(lead, UR) THEN <<"UR ecosystem">> ELSE <<>>)
          \o (IF HasSource(lead, BECKHOFF) THEN <<"Beckhoff ecosystem">> ELSE <<>>)
          \o (IF HasSource(lead, PI_PROFINET)
              THEN <<"PI/PROFINET ecosystem">> ELSE <<>>)
  IN  IF labels # <<>> THEN labels ELSE <<"Relevance match">>

\* lines 710-728 for one lead; the pitch is the template with the lead's
\* stack tags put in
ScoredLead(lead) ==
  [lead EXCEPT !.score = RawScore(lead),
               !.priority_class = PriorityOf(RawScore(lead)),
               !.reason = Reasons(lead),
               !.pitch = lead.stack_tags]

ScoreStart(t, job_id) ==
  /\ pc[t] = "idle"
  /\ loc' = [loc EXCEPT ![t] =
               [IdleLoc EXCEPT !.job_id = job_id, !.li = 1, !.n0 = Len(LEADS)]]
  /\ pc' = [pc EXCEPT ![t] = "score_loop"]
  /\ resp' = [resp EXCEPT ![t] = NoResp]
  /\ UNCHANGED <<LEADS, heap, JOBS, idVars, httpVars>>

ScoreRaise(t) ==
  /\ pc[t] = "score_loop"
  /\ Len(LEADS) # loc[t].n0
  /\ pc' = [pc EXCEPT ![t] = "idle"]
  /\ loc' = [loc EXCEPT ![t] = IdleLoc]
  /\ resp' = [resp EXCEPT ![t] = Raised("RuntimeError")]
  /\ UNCHANGED <<LEADS, heap, JOBS, idVars, httpVars>>

ScoreLead(t) ==
  /\ pc[t] = "score_loop"
  /\ Len(LEADS) = loc[t].n0
  /\ loc[t].li <= Len(LEADS)
  /\ heap' = [heap EXCEPT ![LEADS[loc[t].li].ref] = ScoredLead(@)]
  /\ loc' = [loc EXCEPT ![t].li = @ + 1]
  /\ UNCHANGED <<LEADS, JOBS, pc, resp, idVars, httpVars>>

\* lines 709-713, statement by statement: the next lead is taken and its
\* raw score is computed
ScoreLeadRaw(t) ==
  /\ pc[t] = "score_loop"
  /\ Len(LEADS) = loc[t].n0
  /\ loc[t].li <= Len(LEADS)
  /\ loc' = [loc EXCEPT ![t].lead = LEADS[loc[t].li].ref,
                        ![t].raw = RawScore(heap[LEADS[loc[t].li].ref])]
  /\ pc' = [pc EXCEPT ![t] = "score_set"]
  /\ UNCHANGED <<LEADS, heap, JOBS, resp, idVars, httpVars>>

\* line 714
ScoreLeadScore(t) ==
  /\ pc[t] = "score_set"
  /\ heap' = [heap EXCEPT ![loc[t].lead].score = loc[t].raw]
  /\ pc' = [pc EXCEPT ![t] = "score_class"]
  /\ UNCHANGED <<LEADS, JOBS, loc, resp, idVars, httpVars>>

\* lines 715-728
ScoreLeadClass(t) ==
  /\ pc[t] = "score_class"
  /\ heap' = [heap EXCEPT
                ![loc[t].lead].priority_class = PriorityOf(loc[t].raw),
                ![loc[t].lead].reason = Reasons(heap[loc[t].lead]),
                ![loc[t].lead].pitch = heap[loc[t].lead].stack_tags]
  /\ loc' = [loc EXCEPT ![t].li = @ + 1, ![t].lead = 0, ![t].raw = 0]
  /\ pc' = [pc EXCEPT ![t] = "score_loop"]
  /\ UNCHANGED <<LEADS, JOBS, resp, idVars, httpVars>>

\* lines 730-734
ScoreJob(t) ==
  /\ pc[t] = "score_loop"
  /\ Len(LEADS) = loc[t].n0
  /\ loc[t].li > Len(LEADS)
  /\ JOBS' = IF JobIx(t) # 0
             THEN [JOBS EXCEPT ![JobIx(t)].status = "scored"]
             ELSE JOBS
  /\ resp' = [resp EXCEPT ![t] = JobAccepted(loc[t].job_id, "scored")]
  /\ loc' = [loc EXCEPT ![t] = IdleLoc]
  /\ pc' = [pc EXCEPT ![t] = "idle"]
  /\ UNCHANGED <<LEADS, heap, idVars, httpVars>>

----------------------------------------------------------------------------
(* leads, lines 736-743.                                                   *)

\* {"HOT":0,"WARM":1,"COLD":2}.get(r.priority_class or "COLD", 3)
TierRank(priority_class) ==
  CASE priority_class = "HOT" -> 0
    [] priority_class = "WARM" -> 1
    [] priority_class \in {"COLD", None} -> 2
    [] OTHER -> 3

\* the rows in the order of LEADS, whatever their keys
ListBefore_unsorted(a, b) == FALSE

\* line 742: the key (tier, -score, country, company_name) of lead a is less
\* than that of lead b
ListBefore(a, b) ==
  \/ TierRank(heap[a].priority_class) < TierRank(heap[b].priority_class)
  \/ /\ TierRank(heap[a].priority_class) = TierRank(heap[b].priority_class)
     /\ TargetBefore(a, b)

\* xs[a:b]
PySlice(xs, a, b) ==
  LET at(i) == IF i < 0 THEN Max(0, Len(xs) + i) ELSE Min(i, Len(xs))
  IN  SubSeq(xs, at(a) + 1, at(b))

\* the query parameters of GET /v1/leads; priority None and country None
\* are parameters left out
LeadsQuery(priority, country, limit, offset) ==
  [priority |-> priority, country |-> country, limit |-> limit,
   offset |-> offset]

\* lines 738-740: the rows, as references, that pass the filters
ListRows(q) ==
  SelectSeqIn([i \in DOMAIN LEADS |-> LEADS[i].ref],
              {r \in DOMAIN heap :
                 /\ q.priority = None \/ heap[r].priority_class = q.priority
                 /\ Falsy(q.country)
                      \/ upper(heap[r].country) = upper(q.country)})

\* lines 738-741: the rows are taken and counted
ListStart(t, q) ==
  /\ pc[t] = "idle"
  /\ loc' = [loc EXCEPT ![t] =
               [IdleLoc EXCEPT !.req = q, !.out = ListRows(q),
                               !.n0 = Len(ListRows(q))]]
  /\ pc' = [pc EXCEPT ![t] = "list"]
  /\ resp' = [resp EXCEPT ![t] = NoResp]
  /\ UNCHANGED <<LEADS, heap, JOBS, idVars, httpVars>>

\* lines 742-743: the rows are sorted and the page is cut out
ListReturn(t) ==
  /\ pc[t] = "list"
  /\ LET q == loc[t].req
         rows == SortBy(loc[t].out, ListBefore)
     IN  resp' = [resp EXCEPT ![t] =
                    [kind |-> "page", job_id |-> NoJob, status |-> None,
                     body |-> [items |-> PySlice(rows, q.offset,
                                                 q.offset + q.limit),
                               total |-> loc[t].n0]]]
  /\ loc' = [loc EXCEPT ![t] = IdleLoc]
  /\ pc' = [pc EXCEPT ![t] = "idle"]
  /\ UNCHANGED <<LEADS, heap, JOBS, idVars, httpVars>>

----------------------------------------------------------------------------
(* export_leads, lines 745-857, and get_job, lines 890-907.                *)

\* `r.segment or "ZZ"` by its place among the segments
SegmentRank(segment) ==
  CASE segment = "OEM" -> 1
    [] segment = "SI" -> 2
    [] OTHER -> 3

\* the rows in the order of LEADS, whatever their keys
ExportBefore_unsorted(a, b) == FALSE

\* lines 765-767: the key (tier, -score, country, segment or "ZZ") of lead
\* a is less than that of lead b
ExportBefore(a, b) ==
  LET ta == TierRank(heap[a].priority_class)
      tb == TierRank(heap[b].priority_class)
  IN  \/ ta < tb
      \/ ta = tb /\ heap[a].score > heap[b].score
      \/ /\ ta = tb
         /\ heap[a].score = heap[b].score
         /\ StrLess(heap[a].country, heap[b].country)
      \/ /\ ta = tb
         /\ heap[a].score = heap[b].score
         /\ heap[a].country = heap[b].country
         /\ SegmentRank(heap[a].segment) < SegmentRank(heap[b].segment)

\* int(x) for a number x given in tenths: the fraction is dropped
int(x) == IF x >= 0 THEN x \div 10 ELSE -((-x) \div 10)

\* lines 754-768: the rows, as references, that pass the min_score filter,
\* sorted; min_score is <<>> for a request without one and <<m>> for a
\* min_score of m tenths
ExportRows(min_score) ==
  SortBy(SelectSeqIn([i \in DOMAIN LEADS |-> LEADS[i].ref],
                     {r \in DOMAIN heap :
                        min_score = <<>>
                          \/ heap[r].score >= int(min_score[1])}),
         ExportBefore)

\* line 754: the rows are taken
ExportStart(t, min_score) ==
  /\ pc[t] = "idle"
  /\ loc' = [loc EXCEPT ![t] =
               [IdleLoc EXCEPT !.req = [min_score |-> min_score],
                               !.out = ExportRows(min_score)]]
  /\ pc' = [pc EXCEPT ![t] = "export"]
  /\ resp' = [resp EXCEPT ![t] = NoResp]
  /\ UNCHANGED <<LEADS, heap, JOBS, idVars, httpVars>>

\* lines 850-857: the files are written and the export is registered
ExportReturn(t) ==
  /\ pc[t] = "export"
  /\ LET export_id == [kind |-> "exp", n |-> Len(JOBS) + 1]
     IN  /\ JOBS' = Append(JOBS,
                      [JobStatus(export_id, "exported") EXCEPT
                         !.message = <<"Exported", Len(loc[t].out)>>])
         /\ resp' = [resp EXCEPT ![t] =
                       [kind |-> "export", job_id |-> export_id,
                        status |-> None, body |-> loc[t].out]]
  /\ loc' = [loc EXCEPT ![t] = IdleLoc]
  /\ pc' = [pc EXCEPT ![t] = "idle"]
  /\ UNCHANGED <<LEADS, heap, idVars, httpVars>>

\* get_job: the status item of a job, or the item with status "not_found"
GetJob(t, job_id) ==
  /\ pc[t] = "idle"
  /\ resp' = [resp EXCEPT ![t] =
       IF JobsGet(job_id) = 0
       THEN [kind |-> "job", job_id |-> job_id, status |-> "not_found",
             body |-> <<>>]
       ELSE LET st == JOBS[JobsGet(job_id)]
            IN  [kind |-> "job", job_id |-> job_id, status |-> st.status,
                 body |-> [found |-> st.found, errors |-> st.errors,
                           progress |-> st.progress, params |-> st.params]]]
  /\ UNCHANGED <<LEADS, heap, JOBS, pc, loc, idVars, httpVars>>

\* get_job of lead_radar_api_skeleton_v_1.py, lines 564-569: the job, or
\* HTTPException(404) with the code "not_found"
GetJobSkeleton(t, job_id) ==
  /\ pc[t] = "idle"
  /\ resp' = [resp EXCEPT ![t] =
       IF JobsGet(job_id) = 0
       THEN [kind |-> "error", job_id |-> job_id, status |-> "not_found",
             body |-> <<>>]
       ELSE [kind |-> "job", job_id |-> job_id,
             status |-> JOBS[JobsGet(job_id)].status,
             body |-> JOBS[JobsGet(job_id)]]]
  /\ UNCHANGED <<LEADS, heap, JOBS, pc, loc, idVars, httpVars>>

----------------------------------------------------------------------------
(* The HTTP client: RateBucket and RobustHttp, lines 18-87.  Time is in    *)
(* whole seconds.  A get call is a frame on the stack of its thread; the   *)
(* requests that leave the client are recorded in `wire`, and what each    *)
(* get call has come to in `outcome`.                                      *)

\* RateBucket.__init__, lines 20-21: 1.0 / max(0.1, rps) for PER_HOST_RPS 0.5
min_gap == 2

\* the least time.sleep of a retry, lines 80 and 84: backoff ** 0
min_backoff == 1

UrlAX == <<"h","t","t","p",":","/","/","a","/","x">>

UrlAY == <<"h","t","t","p",":","/","/","a","/","y">>

UrlBX == <<"h","t","t","p",":","/","/","b","/","x">>

PageUrls == {UrlAX, UrlAY, UrlBX}

\* robots_allowed, lines 49-51
robots_url(url) ==
  urljoin(SubSeq(url, 1, FirstOf(url, {":"}, 1) - 1) \o <<":", "/", "/">>
            \o netloc(url),
          <<"/","r","o","b","o","t","s",".","t","x","t">>)

AllUrls == PageUrls \cup {robots_url(u) : u \in PageUrls}

Hosts == {netloc(u) : u \in PageUrls}

\* robots_allowed, line 60: the text looked for
DisallowRoot == <<"D","i","s","a","l","l","o","w",":"," ","/">>

\* a robots.txt that disallows everything, one that disallows /p only, and
\* one that disallows nothing
RobotsDenyAll == DisallowRoot

RobotsDenySub == DisallowRoot \o <<"p">>

RobotsAllowAll == <<"A","l","l","o","w",":"," ","/">>

RobotsTexts == {RobotsDenyAll, RobotsDenySub, RobotsAllowAll}

\* the bodies a page is served with
PageBodies == {<<"v","1">>, <<"v","2">>}

\* line 60
robots_text_allows(txt) == ~Contains(txt, DisallowRoot)

NoRet == [kind |-> "none", body |-> <<>>]

Top(t) == frames[t][Len(frames[t])]

\* the frame of a get call that starts
NewFrame(fid, url) ==
  [fid |-> fid, url |-> url, pcf |-> "start", i |-> 0, b |-> 0, wake |-> 0]

NewOutcome(url, depth) ==
  [url |-> url, depth |-> depth, kind |-> "pending", body |-> <<>>,
   hit |-> FALSE]

SetTop(t, f) == [frames EXCEPT ![t] = [@ EXCEPT ![Len(@)] = f]]

\* the top get call of thread t ends: it returns a body (kind "ok") or raises
\* RuntimeError (kind "robots" or "failed"); the caller, if there is one,
\* is robots_allowed of the frame below
Finish(t, kind, body, hit) ==
  /\ frames' = [frames EXCEPT ![t] = SubSeq(@, 1, Len(@) - 1)]
  /\ outcome' = [outcome EXCEPT ![Top(t).fid] =
                   [@ EXCEPT !.kind = kind, !.body = body, !.hit = hit]]
  /\ ret' = [ret EXCEPT ![t] =
               IF Len(frames[t]) > 1 THEN [kind |-> kind, body |-> body]
               ELSE NoRet]

\* the client of the API specifications: nothing fetched, robots respected
HttpIdle ==
  /\ now = min_gap
  /\ buckets = [h \in Hosts |-> 0]
  /\ bheap = <<>>
  /\ cache = [u \in AllUrls |-> <<>>]
  /\ robots_cache = [u \in AllUrls |-> <<>>]
  /\ respect_robots = TRUE
  /\ robots_txt = RobotsAllowAll
  /\ frames = [t \in Threads |-> <<>>]
  /\ ret = [t \in Threads |-> NoRet]
  /\ wire = <<>>
  /\ outcome = <<>>

\* RobustHttp(), line 87, with either setting of respect_robots, and the
\* robots.txt the sites serve; the clock is far from 0.0
InitHttp ==
  /\ now = min_gap
  /\ buckets = [h \in Hosts |-> 0]
  /\ bheap = <<>>
  /\ cache = [u \in AllUrls |-> <<>>]
  /\ robots_cache = [u \in AllUrls |-> <<>>]
  /\ respect_robots \in BOOLEAN
  /\ robots_txt \in RobotsTexts
  /\ frames = [t \in Threads |-> <<>>]
  /\ ret = [t \in Threads |-> NoRet]
  /\ wire = <<>>
  /\ outcome = <<>>

Running(t) == frames[t] # <<>> /\ ret[t] = NoRet

\* a client that never finds a url in its cache
CacheHit_never(url) == FALSE

\* line 62: url in self.cache
CacheHit(url) == cache[url] # <<>>

\* HTTP.get(url) is called from outside the client
HttpGet(t, url) ==
  /\ frames[t] = <<>>
  /\ Cardinality({k \in DOMAIN outcome : outcome[k].depth = 1}) < MaxCalls
  /\ frames' = [frames EXCEPT ![t] = <<NewFrame(Len(outcome) + 1, url)>>]
  /\ outcome' = Append(outcome, NewOutcome(url, 1))
  /\ UNCHANGED <<now, buckets, bheap, cache, robots_cache, respect_robots,
                 robots_txt, ret, wire, apiVars, idVars>>

\* lines 62-63: the body is in the cache
GetCached(t) ==
  /\ Running(t)
  /\ Top(t).pcf = "start"
  /\ CacheHit(Top(t).url)
  /\ Finish(t, "ok", cache[Top(t).url][1], TRUE)
  /\ UNCHANGED <<now, buckets, bheap, cache, robots_cache, respect_robots,
                 robots_txt, wire, apiVars, idVars>>

\* lines 64-66 with lines 47-48 and 52-53, 60: robots are not respected, or
\* the robots.txt of the host is in robots_cache
GetRobotsKnown(t) ==
  /\ Running(t)
  /\ Top(t).pcf = "start"
  /\ ~CacheHit(Top(t).url)
  /\ LET r == robots_url(Top(t).url)
     IN  /\ ~respect_robots \/ robots_cache[r] # <<>>
         /\ IF ~respect_robots \/ robots_text_allows(robots_cache[r][1])
            THEN /\ frames' = SetTop(t, [Top(t) EXCEPT !.pcf = "loop"])
                 /\ UNCHANGED <<ret, outcome>>
            ELSE Finish(t, "robots", <<>>, FALSE)
  /\ UNCHANGED <<now, buckets, bheap, cache, robots_cache, respect_robots,
                 robots_txt, wire, apiVars, idVars>>

\* lines 54-56: robots_allowed calls get(robots_url)
GetRobotsFetch(t) ==
  /\ Running(t)
  /\ Top(t).pcf = "start"
  /\ ~CacheHit(Top(t).url)
  /\ respect_robots
  /\ robots_cache[robots_url(Top(t).url)] = <<>>
  /\ Len(frames[t]) < MaxDepth
  /\ frames' = [frames EXCEPT ![t] =
                  Append([@ EXCEPT ![Len(@)].pcf = "robots_wait"],
                         NewFrame(Len(outcome) + 1, robots_url(Top(t).url)))]
  /\ outcome' = Append(outcome,
                       NewOutcome(robots_url(Top(t).url), Len(frames[t]) + 1))
  /\ UNCHANGED <<now, buckets, bheap, cache, robots_cache, respect_robots,
                 robots_txt, ret, wire, apiVars, idVars>>

\* lines 56-59: the call of get(robots_url) raises RecursionError, at the
\* deepest frame or one frame before it, and robots_allowed returns True
GetRobotsRecursionError(t) ==
  /\ Running(t)
  /\ Top(t).pcf = "start"
  /\ ~CacheHit(Top(t).url)
  /\ respect_robots
  /\ robots_cache[robots_url(Top(t).url)] = <<>>
  /\ Len(frames[t]) >= MaxDepth - 1
  /\ frames' = SetTop(t, [Top(t) EXCEPT !.pcf = "loop"])
  /\ UNCHANGED <<now, buckets, bheap, cache, robots_cache, respect_robots,
                 robots_txt, ret, wire, outcome, apiVars, idVars>>

\* lines 56-60 and 65-66: get(robots_url) has returned or raised
RobotsReturn(t) ==
  /\ frames[t] # <<>>
  /\ ret[t] # NoRet
  /\ Top(t).pcf = "robots_wait"
  /\ LET r == robots_url(Top(t).url)
     IN  IF ret[t].kind = "ok"
         THEN /\ robots_cache' = [robots_cache EXCEPT ![r] = <<ret[t].body>>]
              /\ IF robots_text_allows(ret[t].body)
                 THEN /\ frames' = SetTop(t, [Top(t) EXCEPT !.pcf = "loop"])
                      /\ ret' = [ret EXCEPT ![t] = NoRet]
                      /\ UNCHANGED outcome
                 ELSE Finish(t, "robots", <<>>, FALSE)
         ELSE /\ frames' = SetTop(t, [Top(t) EXCEPT !.pcf = "loop"])
              /\ ret' = [ret EXCEPT ![t] = NoRet]
              /\ UNCHANGED <<robots_cache, outcome>>
  /\ UNCHANGED <<now, buckets, bheap, cache, respect_robots, robots_txt, wire,
                 apiVars, idVars>>

\* lines 69 and 85: the next attempt, or RuntimeError when none is left
GetLoop(t) ==
  /\ Running(t)
  /\ Top(t).pcf = "loop"
  /\ IF Top(t).i >= MAX_RETRIES
     THEN Finish(t, "failed", <<>>, FALSE)
     ELSE /\ frames' = SetTop(t, [Top(t) EXCEPT !.pcf = "bucket"])
          /\ UNCHANGED <<ret, outcome>>
  /\ UNCHANGED <<now, buckets, bheap, cache, robots_cache, respect_robots,
                 robots_txt, wire, apiVars, idVars>>

\* _bucket, lines 39-40: the lookup
GetBucket(t) ==
  /\ Running(t)
  /\ Top(t).pcf = "bucket"
  /\ LET b == buckets[netloc(Top(t).url)]
     IN  frames' = SetTop(t, [Top(t) EXCEPT
                                !.b = b,
                                !.pcf = IF b = 0 THEN "bucket_new" ELSE "wait"])
  /\ UNCHANGED <<now, buckets, bheap, cache, robots_cache, respect_robots,
                 robots_txt, ret, wire, outcome, apiVars, idVars>>

\* _bucket, lines 41-42: a new RateBucket is stored for the host
BucketNew(t) ==
  /\ Running(t)
  /\ Top(t).pcf = "bucket_new"
  /\ bheap' = Append(bheap, [host |-> netloc(Top(t).url), last |-> 0])
  /\ buckets' = [buckets EXCEPT ![netloc(Top(t).url)] = Len(bheap) + 1]
  /\ frames' = SetTop(t, [Top(t) EXCEPT !.b = Len(bheap) + 1, !.pcf = "wait"])
  /\ UNCHANGED <<now, cache, robots_cache, respect_robots, robots_txt, ret,
                 wire, outcome, apiVars, idVars>>

\* a pacer that never sleeps
WakeTime_now(last) == now

\* RateBucket.wait, lines 24-27: when the sleep ends, for a bucket last used
\* at `last`
WakeTime(last) ==
  LET delta == now - last
  IN  IF delta < min_gap THEN now + (min_gap - delta) ELSE now

\* RateBucket.wait, lines 24-27: the time to sleep until
BucketWait(t) ==
  /\ Running(t)
  /\ Top(t).pcf = "wait"
  /\ frames' = SetTop(t, [Top(t) EXCEPT !.wake = WakeTime(bheap[Top(t).b].last),
                                        !.pcf = "stamp"])
  /\ UNCHANGED <<now, buckets, bheap, cache, robots_cache, respect_robots,
                 robots_txt, ret, wire, outcome, apiVars, idVars>>

\* RateBucket.wait, line 28, once the sleep is over
BucketStamp(t) ==
  /\ Running(t)
  /\ Top(t).pcf = "stamp"
  /\ now >= Top(t).wake
  /\ bheap' = [bheap EXCEPT ![Top(t).b].last = now]
  /\ frames' = SetTop(t, [Top(t) EXCEPT !.pcf = "send"])
  /\ UNCHANGED <<now, buckets, cache, robots_cache, respect_robots, robots_txt,
                 ret, wire, outcome, apiVars, idVars>>

\* a client that retries after every status but 2xx
Retried_any(st) == st # "200"

\* lines 79 and 82-84: what is followed by a sleep and another attempt
Retried(st) == st \in {"403", "429", "503", "exc"}

\* lines 73-84: the request leaves, and what comes back: a 2xx body, a
\* status that is retried, another status, or a transport exception
HttpSend(t, statuses, bodies) ==
  /\ Running(t)
  /\ Top(t).pcf = "send"
  /\ \E st \in statuses :
       /\ wire' = Append(wire, [fid |-> Top(t).fid, url |-> Top(t).url,
                                host |-> netloc(Top(t).url), at |-> now,
                                status |-> st])
       /\ CASE st = "200" ->
                 \E body \in IF Top(t).url \in PageUrls THEN bodies
                             ELSE {robots_txt} :
                   /\ cache' = [cache EXCEPT ![Top(t).url] = <<body>>]
                   /\ Finish(t, "ok", body, FALSE)
            [] Retried(st) ->
                 /\ frames' = SetTop(t, [Top(t) EXCEPT
                                           !.pcf = "backoff",
                                           !.wake = now + min_backoff])
                 /\ UNCHANGED <<cache, ret, outcome>>
            [] OTHER ->
                 /\ Finish(t, "failed", <<>>, FALSE)
                 /\ UNCHANGED cache
  /\ UNCHANGED <<now, buckets, bheap, robots_cache, respect_robots, robots_txt,
                 apiVars, idVars>>

\* lines 80 and 84: the sleep before the next attempt is over
Backoff(t) ==
  /\ Running(t)
  /\ Top(t).pcf = "backoff"
  /\ now >= Top(t).wake
  /\ frames' = SetTop(t, [Top(t) EXCEPT !.pcf = "loop", !.i = @ + 1])
  /\ UNCHANGED <<now, buckets, bheap, cache, robots_cache, respect_robots,
                 robots_txt, ret, wire, outcome, apiVars, idVars>>

\* a thread sleeps
Sleeping(t) ==
  /\ Running(t)
  /\ Top(t).pcf \in {"stamp", "backoff"}
  /\ Top(t).wake > now

\* a second passes while a thread sleeps
Tick ==
  /\ now < MaxClock
  /\ \E t \in Threads : Sleeping(t)
  /\ now' = now + 1
  /\ UNCHANGED <<buckets, bheap, cache, robots_cache, respect_robots,
                 robots_txt, frames, ret, wire, outcome, apiVars, idVars>>

\* no thread is in the client for as long as the pacing gap
Idle ==
  /\ now + min_gap <= MaxClock
  /\ \A t \in Threads : frames[t] = <<>>
  /\ now' = now + min_gap
  /\ UNCHANGED <<buckets, bheap, cache, robots_cache, respect_robots,
                 robots_txt, frames, ret, wire, outcome, apiVars, idVars>>

----------------------------------------------------------------------------
(* Requests, and the specifications.                                       *)

FOO == <<"F","O","O">>

\* a job id no job has
UnknownJob == [kind |-> "scan", n |-> 0]

ScanRequest(countries, sources) == [countries |-> countries, sources |-> sources]

\* a country token to be trimmed and upper-cased with two sources
ReqTwoSources == ScanRequest(<<<<" ","d","k">>>>, <<ETG, SIEMENS>>)

\* an unregistered source beside a registered one
ReqOneSource == ScanRequest(<<DK>>, <<UR, FOO>>)

\* "all" in lower case and an empty country list
ReqNoCountry == ScanRequest(<<>>, <<<<"a","l","l">>>>)

\* no registered source
ReqNoSource == ScanRequest(<<DK>>, <<FOO>>)

\* one source named twice
ReqDupSource == ScanRequest(<<DK>>, <<ETG, ETG>>)

ScanNames == {Acme}

\* a link that starts with "http" and is no URL
NoUrl == <<"h","t","t","p">>

\* the id arguments are not under study in the API specifications
IdIdle ==
  /\ idA = [website |-> NoneS, name |-> Acme, country |-> DK]
  /\ idB = idA
  /\ idOutA = NotCalled
  /\ idOutB = NotCalled

Init == InitApi /\ IdIdle /\ HttpIdle

\* every handler, one request at a time, served by thread 1; rows come
\* without a website or with one
Next ==
  \/ /\ Len(JOBS) < MaxJobs
     /\ \E req \in {ReqTwoSources, ReqNoCountry, ReqNoSource} : ScanStart(1, req)
  \/ ScanCollect(1, ScanNames, {NoneS, AcmeSite})
  \/ ScanTaskDone(1)
  \/ UpsertGet(1)
  \/ UpsertCreate(1)
  \/ UpsertMerge(1)
  \/ UpsertTagTest(1)
  \/ UpsertTagAdd(1)
  \/ UpsertReturn(1)
  \/ ScanSetStatus(1)
  \/ ScanSetFound(1)
  \/ ScanSetErrors(1)
  \/ ScanReturn(1)
  \/ \E j \in JobIds \cup {UnknownJob} : EnrichStart(1, j)
  \/ EnrichLead(1, Pages, ContactPages)
  \/ EnrichJob(1)
  \/ \E j \in JobIds \cup {UnknownJob} : ScoreStart(1, j)
  \/ ScoreLead(1)
  \/ ScoreJob(1)
  \/ /\ Len(JOBS) < MaxJobs
     /\ \E m \in {<<>>, <<700>>} : ExportStart(1, m)
  \/ ExportReturn(1)

Spec == Init /\ [][Next]_vars

\* scans only, one at a time; rows also come with a link that is no URL
NextUpsert ==
  \/ /\ Len(JOBS) < MaxScans
     /\ \E req \in {ReqTwoSources, ReqOneSource, ReqNoCountry, ReqNoSource,
                     ReqDupSource} :
          ScanStart(1, req)
  \/ ScanCollect(1, ScanNames, {NoneS, AcmeSite, NoUrl})
  \/ ScanTaskDone(1)
  \/ UpsertGet(1)
  \/ UpsertCreate(1)
  \/ UpsertMerge(1)
  \/ UpsertTagTest(1)
  \/ UpsertTagAdd(1)
  \/ UpsertReturn(1)
  \/ ScanSetStatus(1)
  \/ ScanSetFound(1)
  \/ ScanSetErrors(1)
  \/ ScanReturn(1)

SpecUpsert == Init /\ [][NextUpsert]_vars

\* the scan requests of the concurrent specification: one source each, the
\* same country
ConcReqs == {ScanRequest(<<DK>>, <<ETG>>), ScanRequest(<<DK>>, <<SIEMENS>>)}

\* NumThreads request threads, each serving scans and status reads, with as
\* many scans as threads; rows come without a website
NextConc ==
  \E t \in Threads :
    \/ /\ Len(JOBS) < NumThreads
       /\ \E req \in ConcReqs : ScanStart(t, req)
    \/ ScanCollect(t, ScanNames, {NoneS})
    \/ ScanTaskDone(t)
    \/ UpsertGet(t)
    \/ UpsertCreate(t)
    \/ UpsertMerge(t)
    \/ UpsertTagTest(t)
    \/ UpsertTagAdd(t)
    \/ UpsertReturn(t)
    \/ ScanSetStatus(t)
    \/ ScanSetFound(t)
    \/ ScanSetErrors(t)
    \/ ScanReturn(t)
    \/ \E j \in JobIds \cup {UnknownJob} : GetJob(t, j)

SpecConc == Init /\ [][NextConc]_vars

NextId ==
  \/ IdCallA
  \/ IdCallB
  \/ IdVaryCase
  \/ IdVaryUpper
  \/ IdVaryPad
  \/ IdVaryWww
  \/ IdVaryCountry

\* an empty store, and any two equal argument triples
InitIdCalls == InitApi /\ InitId /\ HttpIdle

\* a scan of two countries and one of two sources, companies without a
\* website; then the scoring and the deep enrichment
Beta == <<"B","e","t","a">>

DeepNames == {Acme, Beta}

ReqTwoCountries == ScanRequest(<<SE, DK>>, <<ETG>>)

ReqEtgSiemens == ScanRequest(<<DK>>, <<ETG, SIEMENS>>)

DeepRequests ==
  {DeepEnrichRequest(j, p, m, 1, TRUE) :
     j \in JobIds \cup {UnknownJob},
     p \in {{"HOT", "WARM"}, {"WARM"}},
     m \in 1..MaxLeads}

\* the largest page budget of a deep request
MaxPages == 3

\* deep requests with a page budget of 0 and more
BudgetRequests ==
  {DeepEnrichRequest(UnknownJob, {"HOT", "WARM"}, 2, n, d) :
     n \in 0..MaxPages, d \in BOOLEAN}

\* a deep pass has left its mark on a lead or on a job
DeepPassMade ==
  \/ \E r \in DOMAIN heap : heap[r].context # <<>>
  \/ \E i \in DOMAIN JOBS : JOBS[i].message # NoneS

\* one scan, scoring at any time, and deep passes until one has left a mark
NextDeep ==
  \/ /\ JOBS = <<>>
     /\ \E req \in {ReqTwoCountries, ReqEtgSiemens} : ScanStart(1, req)
  \/ ScanCollect(1, DeepNames, {NoneS})
  \/ ScanTaskDone(1)
  \/ UpsertGet(1)
  \/ UpsertCreate(1)
  \/ UpsertMerge(1)
  \/ UpsertTagTest(1)
  \/ UpsertTagAdd(1)
  \/ UpsertReturn(1)
  \/ ScanSetStatus(1)
  \/ ScanSetFound(1)
  \/ ScanSetErrors(1)
  \/ ScanReturn(1)
  \/ \E j \in JobIds \cup {UnknownJob} : ScoreStart(1, j)
  \/ ScoreLead(1)
  \/ ScoreJob(1)
  \/ /\ ~DeepPassMade
     /\ \E req \in DeepRequests : DeepStart(1, req)
  \/ DeepLead(1, DeepPages, ContactPages)
  \/ DeepJob(1)

SpecDeep == Init /\ [][NextDeep]_vars

ReqEtg == ScanRequest(<<DK>>, <<ETG>>)

\* one scan of two sources, the scoring, and one deep pass with a page
\* budget; the fetch of a ranked link fails or returns a contact page
NextLinks ==
  \/ /\ JOBS = <<>>
     /\ ScanStart(1, ReqEtgSiemens)
  \/ ScanCollect(1, {Acme}, {NoneS, AcmeSite})
  \/ ScanTaskDone(1)
  \/ UpsertGet(1)
  \/ UpsertCreate(1)
  \/ UpsertMerge(1)
  \/ UpsertTagTest(1)
  \/ UpsertTagAdd(1)
  \/ UpsertReturn(1)
  \/ ScanSetStatus(1)
  \/ ScanSetFound(1)
  \/ ScanSetErrors(1)
  \/ ScanReturn(1)
  \/ ScoreStart(1, UnknownJob)
  \/ ScoreLead(1)
  \/ ScoreJob(1)
  \/ /\ ~DeepPassMade
     /\ \E req \in BudgetRequests : DeepStart(1, req)
  \/ DeepLead(1, {NoPage, PageSite}, {NoPage, PageContact})
  \/ DeepJob(1)

SpecLinks == Init /\ [][NextLinks]_vars

Ann == <<"A","n","n","a">>

AnnMail == <<"a","n","n","a","@","x",".","d","k">>

LinkedInAcme ==
  <<"l","i","n","k","e","d","i","n",".","c","o","m","/","a","c","m","e">>

\* a page whose JSON-LD names Anna with her address and a second person
\* with a job title and "email": "", whose organisation has a linkedin
\* sameAs link, and which shows a phone number and a project headline
PagePeople ==
  [BlankPage EXCEPT
     !.contact = <<"/","c","o","n","t","a","c","t">>,
     !.persons = <<Contact(Ann, AnnMail, NoneS), Contact(NoneS, <<>>, NoneS)>>,
     !.same_as = <<LinkedInAcme>>,
     !.phone = <<"+","4","5","1","2","3","4","5","6","7","8">>,
     !.projects = <<<<"c","a","s","e">>>>]

\* the k-th team page: thirty persons with their addresses and twenty
\* sector headlines
PageTeam(k) ==
  [BlankPage EXCEPT
     !.contact = <<"/","c","o","n","t","a","c","t">>,
     !.persons = [i \in 1..30 |-> Contact(<<"n", k, i>>, <<"e", k, i>>, NoneS)],
     !.sectors = [i \in 1..20 |-> <<"s", k, i>>],
     !.phone = <<"+","4","5","8","7","6","5","4","3","2","1">>]

\* a page with another contact link and an e-mail address
PageKontakt ==
  [BlankPage EXCEPT !.contact = <<"/","k","o","n","t","a","k","t">>,
                    !.email = <<"k","@","c",".","d","k">>]

PeoplePages == {NoPage, PagePeople, PageTeam(1)}

PeopleLinkPages == {PagePeople, PageTeam(2)}

\* one scan of one company, scoring, and deep passes over any pages
NextContacts ==
  \/ /\ JOBS = <<>>
     /\ ScanStart(1, ReqEtg)
  \/ ScanCollect(1, {Acme}, {NoneS})
  \/ ScanTaskDone(1)
  \/ UpsertGet(1)
  \/ UpsertCreate(1)
  \/ ScanSetStatus(1)
  \/ ScanSetFound(1)
  \/ ScanSetErrors(1)
  \/ ScanReturn(1)
  \/ ScoreStart(1, UnknownJob)
  \/ ScoreLead(1)
  \/ ScoreJob(1)
  \/ DeepStart(1, DeepEnrichRequest(UnknownJob, {"HOT", "WARM"}, MaxLeads, 1, TRUE))
  \/ DeepLead(1, PeoplePages, PeopleLinkPages)
  \/ DeepJob(1)

SpecContacts == Init /\ [][NextContacts]_vars

\* one scan of two sources whose adapter calls return rows or raise
NextRetry ==
  \/ /\ JOBS = <<>>
     /\ ScanStart(1, ReqEtgSiemens)
  \/ ScanCollect(1, {Acme}, {NoneS})
  \/ ScanTaskRaise(1)
  \/ ScanCollectFailed(1)
  \/ ScanTaskDone(1)
  \/ UpsertGet(1)
  \/ UpsertCreate(1)
  \/ UpsertMerge(1)
  \/ UpsertTagTest(1)
  \/ UpsertTagAdd(1)
  \/ UpsertReturn(1)
  \/ ScanSetStatus(1)
  \/ ScanSetFound(1)
  \/ ScanSetErrors(1)
  \/ ScanReturn(1)

SpecRetry == Init /\ [][NextRetry]_vars

\* a region, a country of it in two spellings, and two sources
ReqIberia ==
  ScanRequest(<<<<"i","b","e","r","i","a">>, <<" ","e","s">>, <<"P","T">>>>,
              <<ETG, SIEMENS>>)

\* a country three times and every adapter
ReqAll ==
  ScanRequest(<<<<"d","k">>, DK, <<" ","d","k"," ">>>>,
              <<ETG, <<"A","l","l">>>>)

\* one scan of a grid, every fetch failing
NextGrid ==
  \/ /\ JOBS = <<>>
     /\ \E req \in {ReqIberia, ReqAll, ReqDupSource, ReqOneSource} :
          ScanStart(1, req)
  \/ ScanCollectOffline(1)
  \/ ScanTaskDone(1)
  \/ ScanSetStatus(1)
  \/ ScanSetFound(1)
  \/ ScanSetErrors(1)
  \/ ScanReturn(1)

SpecGrid == Init /\ [][NextGrid]_vars

\* scans while every fetch of the adapters fails
NextOffline ==
  \/ /\ Len(JOBS) < MaxScans
     /\ \E req \in {ReqTwoSources, ReqOneSource, ReqNoCountry, ReqDupSource,
                     ReqTwoCountries, ReqEtgSiemens} : ScanStart(1, req)
  \/ ScanCollectOffline(1)
  \/ ScanTaskDone(1)
  \/ ScanSetStatus(1)
  \/ ScanSetFound(1)
  \/ ScanSetErrors(1)
  \/ ScanReturn(1)

SpecOffline == Init /\ [][NextOffline]_vars

\* scans and exports, and between their steps status queries for the ids
\* of the registry and for an id that no job has
NextJobs ==
  \/ /\ Len(JOBS) < MaxScans
     /\ ScanStart(1, ReqEtg)
  \/ ScanCollect(1, {Acme}, {NoneS})
  \/ ScanTaskDone(1)
  \/ UpsertGet(1)
  \/ UpsertCreate(1)
  \/ UpsertMerge(1)
  \/ UpsertTagTest(1)
  \/ UpsertReturn(1)
  \/ ScanSetStatus(1)
  \/ ScanSetFound(1)
  \/ ScanSetErrors(1)
  \/ ScanReturn(1)
  \/ /\ Len(JOBS) < MaxScans
     /\ ExportStart(1, <<>>)
  \/ ExportReturn(1)
  \/ \E j \in JobIds \cup {UnknownJob} : GetJob(2, j)
  \/ \E j \in JobIds \cup {UnknownJob} : GetJobSkeleton(2, j)

SpecJobs == Init /\ [][NextJobs]_vars

\* the queries of GET /v1/leads
LeadsQueries ==
  {LeadsQuery(p, c, l, o) :
     p \in {None, "WARM"}, c \in {NoneS, <<"d","k">>}, l \in {-1, 1, 2},
     o \in {-1, 0, 1, 2}}

\* scans of UR and of ETG that find the same company, and between them
\* the scoring, the enrichment and the deep enrichment
NextTier ==
  \/ /\ Len(JOBS) < MaxScans
     /\ \E req \in {ReqOneSource, ReqEtg} : ScanStart(1, req)
  \/ ScanCollect(1, {Acme}, {NoneS})
  \/ ScanTaskDone(1)
  \/ UpsertGet(1)
  \/ UpsertCreate(1)
  \/ UpsertMerge(1)
  \/ UpsertTagTest(1)
  \/ UpsertTagAdd(1)
  \/ UpsertReturn(1)
  \/ ScanSetStatus(1)
  \/ ScanSetFound(1)
  \/ ScanSetErrors(1)
  \/ ScanReturn(1)
  \/ ScoreStart(1, UnknownJob)
  \/ ScoreLead(1)
  \/ ScoreJob(1)
  \/ EnrichStart(1, UnknownJob)
  \/ EnrichLead(1, {NoPage, PageSite}, {NoPage})
  \/ EnrichJob(1)
  \/ DeepStart(1, DeepEnrichRequest(UnknownJob, {"HOT", "WARM", "COLD"},
                                    MaxLeads, 1, FALSE))
  \/ DeepLead(1, {NoPage, PageSite}, {NoPage})
  \/ DeepJob(1)

SpecTier == Init /\ [][NextTier]_vars

\* thread 1 scans ETG and then SIEMENS, which find the same company, and
\* scores; thread 2 scores; the scoring goes statement by statement
NextScoreRace ==
  \/ /\ JOBS = <<>>
     /\ ScanStart(1, ReqEtg)
  \/ /\ Len(JOBS) = 1
     /\ ScanStart(1, ScanRequest(<<DK>>, <<SIEMENS>>))
  \/ ScanCollect(1, {Acme}, {NoneS})
  \/ ScanTaskDone(1)
  \/ UpsertGet(1)
  \/ UpsertCreate(1)
  \/ UpsertMerge(1)
  \/ UpsertTagTest(1)
  \/ UpsertTagAdd(1)
  \/ UpsertReturn(1)
  \/ ScanSetStatus(1)
  \/ ScanSetFound(1)
  \/ ScanSetErrors(1)
  \/ ScanReturn(1)
  \/ \E t \in 1..2 :
       \/ ScoreStart(t, UnknownJob)
       \/ ScoreRaise(t)
       \/ ScoreLeadRaw(t)
       \/ ScoreLeadScore(t)
       \/ ScoreLeadClass(t)
       \/ ScoreJob(t)

SpecScoreRace == Init /\ [][NextScoreRace]_vars

\* thread 1 scans SIEMENS and ETG while thread 2 scans ETG; both find the
\* same company
NextTags ==
  \/ /\ \A i \in DOMAIN JOBS : JOBS[i].params # ReqEtgSiemens
     /\ ScanStart(1, ReqEtgSiemens)
  \/ /\ \A i \in DOMAIN JOBS : JOBS[i].params # ReqEtg
     /\ ScanStart(2, ReqEtg)
  \/ \E t \in 1..2 :
       \/ ScanCollect(t, {Acme}, {NoneS})
       \/ ScanTaskDone(t)
       \/ UpsertGet(t)
       \/ UpsertCreate(t)
       \/ UpsertMerge(t)
       \/ UpsertTagTest(t)
       \/ UpsertTagAdd(t)
       \/ UpsertReturn(t)
       \/ ScanSetStatus(t)
       \/ ScanSetFound(t)
       \/ ScanSetErrors(t)
       \/ ScanReturn(t)

SpecTags == Init /\ [][NextTags]_vars

\* thread 1 scans two countries while thread 2 scores, enriches and lists
\* the leads; no fetch of the enrichment gets through
NextPass ==
  \/ /\ JOBS = <<>>
     /\ ScanStart(1, ReqTwoCountries)
  \/ ScanCollect(1, {Acme}, {NoneS})
  \/ ScanTaskDone(1)
  \/ UpsertGet(1)
  \/ UpsertCreate(1)
  \/ ScanSetStatus(1)
  \/ ScanSetFound(1)
  \/ ScanSetErrors(1)
  \/ ScanReturn(1)
  \/ ScoreStart(2, UnknownJob)
  \/ ScoreRaise(2)
  \/ ScoreLead(2)
  \/ ScoreJob(2)
  \/ EnrichStart(2, UnknownJob)
  \/ EnrichRaise(2)
  \/ EnrichLead(2, {NoPage}, {NoPage})
  \/ EnrichJob(2)
  \/ ListStart(2, LeadsQuery(None, NoneS, 2, 0))
  \/ ListReturn(2)

SpecPass == Init /\ [][NextPass]_vars

\* one scan and the scoring, and between them the leads are listed and
\* exported
NextList ==
  \/ /\ JOBS = <<>>
     /\ \E req \in {ReqTwoCountries, ReqEtgSiemens} : ScanStart(1, req)
  \/ ScanCollect(1, DeepNames, {NoneS})
  \/ ScanTaskDone(1)
  \/ UpsertGet(1)
  \/ UpsertCreate(1)
  \/ UpsertMerge(1)
  \/ UpsertTagTest(1)
  \/ UpsertTagAdd(1)
  \/ UpsertReturn(1)
  \/ ScanSetStatus(1)
  \/ ScanSetFound(1)
  \/ ScanSetErrors(1)
  \/ ScanReturn(1)
  \/ ScoreStart(1, UnknownJob)
  \/ ScoreLead(1)
  \/ ScoreJob(1)
  \/ \E q \in LeadsQueries : ListStart(1, q)
  \/ ListReturn(1)
  \/ /\ Len(JOBS) < MaxScans
     /\ \E m \in {<<>>, <<640>>, <<645>>, <<700>>} : ExportStart(1, m)
  \/ ExportReturn(1)

SpecList == Init /\ [][NextList]_vars

\* a page that shows a phone number, twenty sector headlines and a language
PagePhone(digit) ==
  [BlankPage EXCEPT !.phone = <<"+","4","5", digit>>,
                    !.sectors = [i \in 1..20 |-> <<"s", digit, i>>],
                    !.languages = <<<<"d","a">>>>]

\* scans that find one company, scoring, shallow and deep passes over
\* pages of different contact links, e-mail addresses, phone numbers and
\* sectors, and between them the leads are listed and exported
NextFirstFound ==
  \/ /\ Len(JOBS) < MaxScans
     /\ ScanStart(1, ReqEtg)
  \/ ScanCollect(1, {Acme}, {NoneS})
  \/ ScanTaskDone(1)
  \/ UpsertGet(1)
  \/ UpsertCreate(1)
  \/ UpsertMerge(1)
  \/ UpsertTagTest(1)
  \/ UpsertReturn(1)
  \/ ScanSetStatus(1)
  \/ ScanSetFound(1)
  \/ ScanSetErrors(1)
  \/ ScanReturn(1)
  \/ ScoreStart(1, UnknownJob)
  \/ ScoreLead(1)
  \/ ScoreJob(1)
  \/ EnrichStart(1, UnknownJob)
  \/ EnrichLead(1, {NoPage, PageSite, PageKontakt}, {NoPage, PageContact})
  \/ EnrichJob(1)
  \/ DeepStart(1, DeepEnrichRequest(UnknownJob, {"HOT", "WARM"}, MaxLeads, 1, TRUE))
  \/ DeepLead(1, {PageSite, PageKontakt}, {NoPage, PagePhone("1"), PagePhone("2")})
  \/ DeepJob(1)
  \/ ListStart(1, LeadsQuery(None, NoneS, 1, 0))
  \/ ListReturn(1)
  \/ /\ Len(JOBS) < MaxScans
     /\ ExportStart(1, <<>>)
  \/ ExportReturn(1)

SpecFirstFound == Init /\ [][NextFirstFound]_vars

\* scans of one source and one country, and between them the shallow
\* enrichment, the scoring and deep passes until one has left a mark
NextEnrich ==
  \/ /\ Len(JOBS) < MaxScans
     /\ ScanStart(1, ReqEtg)
  \/ ScanCollect(1, DeepNames, {NoneS})
  \/ ScanTaskDone(1)
  \/ UpsertGet(1)
  \/ UpsertCreate(1)
  \/ UpsertMerge(1)
  \/ UpsertTagTest(1)
  \/ UpsertReturn(1)
  \/ ScanSetStatus(1)
  \/ ScanSetFound(1)
  \/ ScanSetErrors(1)
  \/ ScanReturn(1)
  \/ EnrichStart(1, UnknownJob)
  \/ EnrichLead(1, DeepPages, ContactPages)
  \/ EnrichJob(1)
  \/ ScoreStart(1, UnknownJob)
  \/ ScoreLead(1)
  \/ ScoreJob(1)
  \/ /\ ~DeepPassMade
     /\ \E j \in JobIds :
          DeepStart(1, DeepEnrichRequest(j, {"HOT", "WARM"}, MaxLeads, 1, TRUE))
  \/ DeepLead(1, DeepPages, ContactPages)
  \/ DeepJob(1)

SpecEnrich == Init /\ [][NextEnrich]_vars

SpecId == InitIdCalls /\ [][NextId]_vars

\* the HTTP client used by one thread, get calls one after the other, on
\* sites whose robots.txt disallows nothing
InitHttpCalls == InitApi /\ IdIdle /\ InitHttp /\ robots_txt = RobotsAllowAll

NextHttp ==
  \/ \E url \in {UrlAX, UrlBX} : HttpGet(1, url)
  \/ GetCached(1)
  \/ GetRobotsKnown(1)
  \/ GetRobotsFetch(1)
  \/ GetRobotsRecursionError(1)
  \/ RobotsReturn(1)
  \/ GetLoop(1)
  \/ GetBucket(1)
  \/ BucketNew(1)
  \/ BucketWait(1)
  \/ BucketStamp(1)
  \/ HttpSend(1, {"200", "503", "404", "exc"}, PageBodies)
  \/ Backoff(1)
  \/ Tick
  \/ Idle

SpecHttp == InitHttpCalls /\ [][NextHttp]_vars

\* the HTTP client used by one thread on sites with any of the robots.txt,
\* every request answered with a 2xx body or with 404
InitHttpRobots == InitApi /\ IdIdle /\ InitHttp

NextHttpRobots ==
  \/ \E url \in {UrlAX, UrlAY} : HttpGet(1, url)
  \/ GetCached(1)
  \/ GetRobotsKnown(1)
  \/ GetRobotsFetch(1)
  \/ GetRobotsRecursionError(1)
  \/ RobotsReturn(1)
  \/ GetLoop(1)
  \/ GetBucket(1)
  \/ BucketNew(1)
  \/ BucketWait(1)
  \/ BucketStamp(1)
  \/ HttpSend(1, {"200", "404"}, {<<"v","1">>})
  \/ Tick
  \/ Idle

SpecHttpRobots == InitHttpRobots /\ [][NextHttpRobots]_vars

\* the HTTP client used by the worker threads of a scan at the same time,
\* robots not respected and every request answered with a 2xx body
InitHttpWorkers == InitHttpCalls /\ ~respect_robots

NextHttpWorkers ==
  \/ \E t \in Threads :
       \/ \E url \in PageUrls : HttpGet(t, url)
       \/ GetCached(t)
       \/ GetRobotsKnown(t)
       \/ GetLoop(t)
       \/ GetBucket(t)
       \/ BucketNew(t)
       \/ BucketWait(t)
       \/ BucketStamp(t)
       \/ HttpSend(t, {"200"}, {<<"v","1">>})
  \/ Tick
  \/ Idle

SpecHttpWorkers == InitHttpWorkers /\ [][NextHttpWorkers]_vars

----------------------------------------------------------------------------
(* Properties of the merge step.                                           *)

\* every request thread has answered
Quiescent == \A t \in Threads : pc[t] = "idle"

\* the names of the sources of a lead, in order
SourceNames(lead) == [k \in DOMAIN lead.sources |-> lead.sources[k].name]

\* the lead is in the middle of a merge: its hit is appended, its tags are not
\* yet unioned
InMerge(ref) ==
  \E t \in Threads : pc[t] \in {"up_tags", "up_tag_add"} /\ loc[t].lead = ref

RECURSIVE SumFound(_)
SumFound(jobs) ==
  IF jobs = <<>> THEN 0 ELSE Head(jobs).found + SumFound(Tail(jobs))

\* C1: when concurrent scans whose candidates all map to one company_id have
\* completed, the store holds one Lead and its sources hold one SourceHit per
\* upsert call (the calls are what the jobs counted as found): no hit is lost.
C1_NoSourceHitLost ==
  Quiescent =>
    /\ Len(LEADS) <= 1
    /\ \A i \in DOMAIN LEADS :
         Len(heap[LEADS[i].ref].sources) = SumFound(JOBS)

\* C2: in sequential upserts each call appends exactly its own SourceHit to the
\* end of the sources of the Lead it maps to (or creates the Lead with that
\* one hit) and no other step touches any sources list; outside a merge the
\* set of stack tags of every Lead is the union of the tags its sources
\* imply, so it is a function of the multiset of hits, not of their order.
C2_SourcesAppendedTagsUnion ==
  /\ [](\A i \in DOMAIN LEADS :
          LET lead == heap[LEADS[i].ref]
          IN  ~InMerge(LEADS[i].ref) =>
                Range(lead.stack_tags) =
                  UNION {Range(base_stacks(lead.sources[k].name)) :
                           k \in DOMAIN lead.sources})
  /\ [][/\ \A r \in DOMAIN heap :
             heap'[r].sources =
               IF pc[1] = "upsert" /\ loc[1].lead = r
               THEN Append(heap[r].sources, SourceHit(Rc(1)))
               ELSE heap[r].sources
        /\ \A r \in DOMAIN heap' \ DOMAIN heap :
             /\ pc[1] = "upsert" /\ loc[1].lead = 0
             /\ heap'[r].sources = <<SourceHit(Rc(1))>>
             /\ LEADS' = Append(LEADS, [cid |-> Cid(Rc(1)), ref |-> r])]_vars

\* C2 witness: a Lead merged from two calls whose completion order is the
\* reverse of their submission order
C2_Witness ==
  /\ Quiescent
  /\ \E i \in DOMAIN LEADS :
       SourceNames(heap[LEADS[i].ref]) = <<SIEMENS, ETG>>

\* C3: the store never holds two Leads of one company, that is of one
\* (trimmed lower-case name, upper-case country).
C3_OneLeadPerCompany ==
  \A i, j \in DOMAIN LEADS :
    LET a == heap[LEADS[i].ref]
        b == heap[LEADS[j].ref]
    IN  (lower(strip(a.company_name)) = lower(strip(b.company_name))
           /\ upper(a.country) = upper(b.country)) => i = j

\* C4: two calls of company_id_from whose arguments differ only in letter
\* case, in whitespace around the name, in a leading "www." of the website
\* host, or in the country, return the same id exactly when the countries are
\* the same up to case.
C4_IdOfEquivalentArguments ==
  (idOutA # NotCalled /\ idOutB # NotCalled) =>
    ((upper(idA.country) = upper(idB.country)) <=> (idOutA = idOutB))

\* C4 witness: both calls made, the second with another case and padding of
\* the name and with the "www." of the website the other way round
C4_Witness ==
  /\ idOutA # NotCalled
  /\ idOutB = idOutA
  /\ idA.website # NoneS
  /\ HasWww(idA.website) # HasWww(idB.website)
  /\ lower(idB.name) # lower(idA.name)
  /\ idB.country # idA.country

\* C5: a Lead of Acme in DK without a website whose sources are an ETG hit
\* and then a SIEMENS hit is the only Lead of its id, has the tags EtherCAT,
\* PROFINET and TIA, and has the segment OEM.
C5_AcmeEtgThenSiemens ==
  \A i \in DOMAIN LEADS :
    LET lead == heap[LEADS[i].ref]
    IN  (/\ LEADS[i].cid = company_id_from(NoneS, Acme, DK)
         /\ SourceNames(lead) = <<ETG, SIEMENS>>
         /\ ~InMerge(LEADS[i].ref))
        => /\ {"EtherCAT", "PROFINET", "TIA"} \subseteq Range(lead.stack_tags)
           /\ lead.segment = "OEM"
           /\ Cardinality({j \in DOMAIN LEADS : LEADS[j].cid = LEADS[i].cid}) = 1
           /\ Cardinality({r \in DOMAIN heap :
                             heap[r].company_id = LEADS[i].cid}) = 1

\* C5 witness: the scan has ended with the two hits merged in that order
C5_Witness ==
  /\ Quiescent
  /\ Len(LEADS) = 1
  /\ LEADS[1].cid = company_id_from(NoneS, Acme, DK)
  /\ SourceNames(heap[LEADS[1].ref]) = <<ETG, SIEMENS>>
  /\ heap[LEADS[1].ref].website = NoneS

\* C6: no step changes a segment that is not None or a website that is not
\* None, and the segment of every Lead is the default of the source of its
\* first hit.
C6_FirstWriteWins ==
  /\ [](\A r \in DOMAIN heap :
          heap[r].segment = default_segment(heap[r].sources[1].name))
  /\ [][\A r \in DOMAIN heap :
          /\ heap[r].segment # None => heap'[r].segment = heap[r].segment
          /\ heap[r].website # NoneS => heap'[r].website = heap[r].website]_vars

\* C6 witness: a Lead with a website, first seen by ETG and later by SIEMENS,
\* that an enrichment pass and a scoring pass have worked on
C6_Witness ==
  /\ Quiescent
  /\ \E r \in DOMAIN heap :
       /\ SourceNames(heap[r]) = <<ETG, SIEMENS>>
       /\ heap[r].segment = "OEM"
       /\ heap[r].website # NoneS
       /\ heap[r].contact_url # NoneS
       /\ heap[r].priority_class # None

----------------------------------------------------------------------------
(* Properties of the jobs.                                                 *)

\* the thread is in start_scan before line 513
ScanInFlight(t) ==
  pc[t] \in {"scan_loop", "scan_rows", "upsert", "up_tags", "up_tag_add"}

\* the thread is writing the fields of its job at line 513
ScanWriting(t) == pc[t] \in {"scan_found", "scan_errors", "scan_progress"}

TerminalStatus == {"scanned", "enriched", "scored", "exported", "failed"}

\* C7: a job with the status running has a handler that is still working on
\* it, so that every handler that ends leaves its job out of running.
C7_NoJobLeftRunning ==
  \A j \in DOMAIN JOBS :
    JOBS[j].status = "running" =>
      \E t \in Threads : pc[t] # "idle" /\ loc[t].job_id = JOBS[j].job_id

\* C8: no step changes a job that has a terminal status, apart from the scan
\* that owns it completing the one assignment line that made it scanned.
C8_TerminalJobsFrozen ==
  [][\A j \in DOMAIN JOBS :
       (/\ JOBS[j].status \in TerminalStatus
        /\ ~\E t \in Threads :
              ScanWriting(t) /\ loc[t].job_id = JOBS[j].job_id)
       => JOBS'[j] = JOBS[j]]_vars

\* C9: the step with which a handler of thread 1 starts an operation adds one
\* job to the registry, and no other step adds one.
C9_OneJobPerOperation ==
  [][/\ (pc[1] = "idle" /\ pc'[1] # "idle") => Len(JOBS') = Len(JOBS) + 1
     /\ pc[1] # "idle" => Len(JOBS') = Len(JOBS)]_vars

\* C10: a get_job answered while the scan of that job is before its last
\* line, after a task of a source has been collected and merged, returns a
\* progress above 0 for that source and the found count the scan has reached.
C10_StatusReadSeesProgress ==
  [][\A t, u \in Threads :
       (/\ ScanInFlight(u)
        /\ resp'[t] # resp[t]
        /\ resp'[t].kind = "job"
        /\ resp'[t].job_id = loc[u].job_id)
       => /\ resp'[t].body.found = loc[u].found
          /\ \A s \in DOMAIN loc[u].done_per_source :
               loc[u].done_per_source[s] > 0 =>
                 /\ s \in DOMAIN resp'[t].body.progress
                 /\ resp'[t].body.progress[s].n > 0]_vars

\* a get_job that finds the job running returns found 0 and an empty progress
GetJobWhileRunning ==
  \A t \in Threads :
    (resp[t].kind = "job" /\ resp[t].status = "running") =>
      resp[t].body.found = 0 /\ resp[t].body.progress = <<>>

\* the tasks of a scan that were submitted for source s
TasksOf(t, s) == {i \in DOMAIN loc[t].tasks : loc[t].tasks[i].src = s}

\* C11: during a scan the progress of every source that has tasks is the
\* fraction of its submitted tasks that have completed, lies in [0, 1], and
\* is 1 only when every task submitted for the source has been collected.
C11_ProgressIsFractionOfTasks ==
  \A t \in Threads :
    ScanInFlight(t) =>
      \A s \in DOMAIN loc[t].progress :
        LET p == loc[t].progress[s]
            total == Cardinality(TasksOf(t, s))
        IN  /\ 0 <= p.n /\ p.n <= p.d
            /\ total > 0 => p.n * total = loc[t].done_per_source[s] * p.d
            /\ p = Frac(1, 1) => TasksOf(t, s) \subseteq loc[t].collected

----------------------------------------------------------------------------
(* Properties of scoring.                                                  *)

\* the scoring pass of thread t has scored every Lead and has not yet
\* marked the job
ScorePassDone(t) == pc[t] = "score_loop" /\ loc[t].li > Len(LEADS)

\* the signal points of a Lead: 40 scaled by its best source strength
SignalPoints(lead) ==
  IF lead.sources = <<>> THEN 0
  ELSE IF \E k \in DOMAIN lead.sources : lead.sources[k].strength = 90
  THEN 36 ELSE 34

\* C17: when a scoring pass has gone through the store every Lead has the
\* score min(100, max(0, signal points + the weights of its stack tags)) and
\* the priority class HOT from 70, WARM from 45, COLD below; a score is
\* always within 0..100.
C17_ScoreAndPriority ==
  /\ \A r \in DOMAIN heap : heap[r].score \in 0..100
  /\ \A t \in Threads :
       ScorePassDone(t) =>
         \A i \in DOMAIN LEADS :
           LET lead == heap[LEADS[i].ref]
               sum == SignalPoints(lead) + stack_points(lead.stack_tags)
           IN  /\ lead.score = Min(100, Max(0, sum))
               /\ lead.priority_class =
                    IF lead.score >= 70 THEN "HOT"
                    ELSE IF lead.score >= 45 THEN "WARM" ELSE "COLD"

\* C17 witness: a pass has ended on a store with a Lead of two hits whose
\* points add up to more than 100
C17_Witness ==
  /\ ScorePassDone(1)
  /\ \E i \in DOMAIN LEADS :
       LET lead == heap[LEADS[i].ref]
       IN  /\ Len(lead.sources) = 2
           /\ SignalPoints(lead) + stack_points(lead.stack_tags) > 100
           /\ lead.score = 100
           /\ lead.priority_class = "HOT"

\* C18: the Lead a scoring step has just scored is left the same by scoring
\* it again: score, priority_class, reason and pitch are a fixed point.
C18_ScoreIdempotent ==
  [][\A t \in Threads :
       (pc[t] = "score_loop" /\ loc'[t].li = loc[t].li + 1) =>
         LET r == LEADS[loc[t].li].ref
         IN  /\ ScoredLead(heap'[r]) = heap'[r]
             /\ heap[r] = ScoredLead(heap[r]) => heap'[r] = heap[r]]_vars

\* C18 witness: a second pass in a row has scored a Lead that has a reason
\* from the first pass, which marked the job scored
C18_Witness ==
  /\ pc[1] = "score_loop"
  /\ loc[1].li > 1
  /\ \E j \in DOMAIN JOBS : JOBS[j].status = "scored"
  /\ heap[LEADS[1].ref].reason # NoneS
  /\ Len(heap[LEADS[1].ref].sources) = 2

----------------------------------------------------------------------------
(* The HTTP client: pacing, robots, retries and the cache.                 *)

\* the requests to the host of request j that left from request i to
\* request j
SameHost(i, j) == {k \in i..j : wire[k].host = wire[j].host}

\* C12: requests that one thread issues through the client to the same host
\* are at least 1/R apart each, so that N of them take at least (N-1)/R from
\* the first to the last, retries of one get call included.
C12_SequentialPacing ==
  \A i, j \in DOMAIN wire :
    (i < j /\ wire[i].host = wire[j].host)
      => wire[j].at - wire[i].at >= (Cardinality(SameHost(i, j)) - 1) * min_gap

\* three requests to one host, two of them attempts of the same get call and
\* one of another call
C12_Witness ==
  /\ Len(wire) >= 3
  /\ wire[1].fid = wire[2].fid
  /\ wire[3].fid # wire[2].fid
  /\ wire[1].host = wire[2].host
  /\ wire[2].host = wire[3].host


\* the RateBucket objects made for host h
BucketsOf(h) == {b \in DOMAIN bheap : bheap[b].host = h}

\* C13: when worker threads call get for the same host at the same time, no
\* two requests to that host leave less than the minimum gap apart, and the
\* host has one RateBucket only.
C13_ConcurrentPacing ==
  /\ \A i, j \in DOMAIN wire :
       (i < j /\ wire[i].host = wire[j].host)
         => wire[j].at - wire[i].at >= min_gap
  /\ \A h \in Hosts : Cardinality(BucketsOf(h)) <= 1


\* the get calls made from outside the client that have ended and were not
\* answered from the cache
EndedUncached ==
  {k \in DOMAIN outcome : /\ outcome[k].depth = 1
                          /\ outcome[k].kind # "pending"
                          /\ ~outcome[k].hit}

\* the requests that left for the url of get call k, by any get call
RequestsFor(k) == {n \in DOMAIN wire : wire[n].url = outcome[k].url}

\* every robots.txt request so far was answered with the robots.txt
RobotsServed ==
  \A n \in DOMAIN wire : wire[n].url \notin PageUrls => wire[n].status = "200"

\* C14: with robots respected, a get for an uncached url of a host whose
\* robots.txt disallows "/" fails with the robots error and no request for
\* the url leaves, on the first fetch to the host and on later ones; a
\* robots.txt that disallows a sub-path only blocks nothing; with robots not
\* respected no robots.txt is looked at.
C14_RobotsPolicy ==
  \A k \in EndedUncached :
    /\ (respect_robots /\ robots_txt = RobotsDenyAll /\ RobotsServed)
         => (outcome[k].kind = "robots" /\ RequestsFor(k) = {})
    /\ (respect_robots /\ robots_txt = RobotsDenySub)
         => outcome[k].kind # "robots"
    /\ ~respect_robots
         => /\ outcome[k].kind # "robots"
            /\ \A n \in DOMAIN wire : wire[n].url \in PageUrls

\* the same for a robots.txt that disallows a sub-path only
C14_SubPathNotBlocked ==
  \A k \in EndedUncached :
    (respect_robots /\ robots_txt = RobotsDenySub) => outcome[k].kind # "robots"

\* the same for the first fetch to a host that disallows "/"
C14_FirstFetchBlocked ==
  \A k \in EndedUncached :
    (respect_robots /\ robots_txt = RobotsDenyAll /\ RobotsServed)
      => (outcome[k].kind = "robots" /\ RequestsFor(k) = {})

\* robots not respected: no call fails with the robots error and no
\* robots.txt is requested
C14_NoCheckWhenDisabled ==
  ~respect_robots
    => /\ \A k \in DOMAIN outcome : outcome[k].kind # "robots"
       /\ \A n \in DOMAIN wire : wire[n].url \in PageUrls


\* the requests that get call k has issued
RequestsOf(k) == {n \in DOMAIN wire : wire[n].fid = k}

\* get call k is on the stack of a thread
Live(k) ==
  \E t \in Threads : \E d \in DOMAIN frames[t] : frames[t][d].fid = k

\* C15: one get call issues at most MAX_RETRIES requests; another request
\* follows only a 403, 429 or 503 response or a transport exception; the
\* call returns the body of the first 2xx response; after any other status it
\* fails with no further request; with all attempts used it fails.
C15_RetryPolicy ==
  \A k \in DOMAIN outcome :
    /\ Cardinality(RequestsOf(k)) <= MAX_RETRIES
    /\ \A n, m \in RequestsOf(k) :
         n < m => wire[n].status \in {"403", "429", "503", "exc"}
    /\ \A n \in RequestsOf(k) :
         /\ wire[n].status = "200" => outcome[k].kind = "ok"
         /\ wire[n].status = "404" => outcome[k].kind = "failed"
    /\ (outcome[k].kind = "ok" /\ ~outcome[k].hit)
         => \E n \in RequestsOf(k) : wire[n].status = "200"
    /\ ~Live(k) => outcome[k].kind # "pending"
    /\ (/\ Cardinality(RequestsOf(k)) = MAX_RETRIES
        /\ \A n \in RequestsOf(k) : wire[n].status # "200")
         => outcome[k].kind \in {"pending", "failed"}

\* a get call has used all its attempts and failed, one of them ended by a
\* transport exception and one by a 503
C15_Witness ==
  \E k \in DOMAIN outcome :
    /\ Cardinality(RequestsOf(k)) = MAX_RETRIES
    /\ outcome[k].kind = "failed"
    /\ \E n, m \in RequestsOf(k) :
         wire[n].status = "exc" /\ wire[m].status = "503"


\* the get calls made from outside the client
Calls == {k \in DOMAIN outcome : outcome[k].depth = 1}

\* the robots.txt fetches nested in call k
NestedIn(k) ==
  {n \in DOMAIN outcome :
     /\ n > k
     /\ outcome[n].depth > 1
     /\ \A c \in Calls : c <= k \/ c > n}

\* a call before k has returned a 2xx body for the url of call k
FetchedBefore(k) ==
  \E j \in Calls :
    j < k /\ outcome[j].url = outcome[k].url /\ outcome[j].kind = "ok"

\* C16: after a get(url) has returned a 2xx body every later get(url)
\* returns that body, and no request leaves, no bucket and no robots.txt is
\* looked at for it; a url whose fetch failed is not in the cache, and a
\* later get(url) issues requests again.
C16_CacheServesLaterGets ==
  /\ \A j, k \in Calls :
       (/\ j < k
        /\ outcome[j].url = outcome[k].url
        /\ outcome[j].kind = "ok")
         => /\ RequestsOf(k) = {}
            /\ NestedIn(k) = {}
            /\ outcome[k].kind # "pending"
                 => (outcome[k].kind = "ok" /\ outcome[k].body = outcome[j].body)
  /\ \A u \in PageUrls :
       cache[u] # <<>>
         => \E n \in DOMAIN wire : wire[n].url = u /\ wire[n].status = "200"
  /\ \A k \in Calls :
       (~FetchedBefore(k) /\ outcome[k].kind # "pending")
         => (~outcome[k].hit /\ RequestsOf(k) # {})

\* a get has returned a body and a later get of the same url has returned
\* it from the cache, after the pacing gap has passed and with robots
\* respected
C16_Witness ==
  \E j, k \in Calls :
    /\ j < k
    /\ outcome[j].url = outcome[k].url
    /\ outcome[j].kind = "ok"
    /\ outcome[k].kind = "ok"
    /\ outcome[k].hit
    /\ respect_robots
    /\ now >= wire[Len(wire)].at + min_gap

\* a get has failed and a later get of the same url has issued a request
C16_WitnessFailed ==
  \E j, k \in Calls :
    /\ j < k
    /\ outcome[j].url = outcome[k].url
    /\ outcome[j].kind = "failed"
    /\ RequestsOf(k) # {}


----------------------------------------------------------------------------
(* enrich_deep: the targets and the pages asked for.                       *)

\* the leads whose priority class the request names
Selected(req) ==
  {LEADS[i].ref : i \in DOMAIN LEADS} \cap
    {r \in DOMAIN heap : heap[r].priority_class \in req.priorities}

\* lead q comes before lead r by score, falling, then country, then name
RankedBefore(q, r) ==
  \/ heap[q].score > heap[r].score
  \/ heap[q].score = heap[r].score /\ StrLess(heap[q].country, heap[r].country)
  \/ /\ heap[q].score = heap[r].score
     /\ heap[q].country = heap[r].country
     /\ StrLess(heap[q].company_name, heap[r].company_name)

DeepLeadStep(t) == pc[t] = "deep_loop" /\ loc'[t].li = loc[t].li + 1

DeepJobStep(t) == pc[t] = "deep_loop" /\ pc'[t] = "idle"

\* C19: a deep pass works on the leads whose priority class is among the
\* requested ones, best score first, then by country, then by name, and on
\* the first max_leads of them only; a step of the pass changes no field of
\* any other lead.
C19_DeepTargets ==
  [][\A t \in Threads :
       /\ DeepLeadStep(t) =>
            LET li == loc[t].li
                r == loc[t].targets[li]
                sel == Selected(loc[t].req)
            IN  /\ r \in sel
                /\ \A i \in 1..(li - 1) : loc[t].targets[i] # r
                /\ li <= loc[t].req.max_leads
                /\ Cardinality({q \in sel : RankedBefore(q, r)}) <= li - 1
                /\ li - 1 <= Cardinality({q \in sel \ {r} : ~RankedBefore(r, q)})
                /\ \A q \in DOMAIN heap \ {r} : heap'[q] = heap[q]
       /\ DeepJobStep(t) =>
            /\ loc[t].li - 1
                 = Min(loc[t].req.max_leads,
                       Cardinality(Selected(loc[t].req)))
            /\ heap' = heap
       /\ (pc[t] = "idle" /\ pc'[t] = "deep_loop") => heap' = heap]_vars

\* a pass over two of four selected leads has ended: the leads of DK were
\* worked on, Acme before Beta, though a lead of SE is first in LEADS, and
\* the leads left out have no context
C19_Witness ==
  \E t \in Threads :
    /\ pc[t] = "deep_loop"
    /\ loc[t].li = 3
    /\ Len(loc[t].targets) = 2
    /\ Cardinality(Selected(loc[t].req)) = 4
    /\ heap[LEADS[1].ref].country = SE
    /\ heap[loc[t].targets[1]].country = DK
    /\ heap[loc[t].targets[1]].company_name = Acme
    /\ heap[loc[t].targets[2]].company_name = Beta
    /\ heap[loc[t].targets[1]].context # <<>>
    /\ heap[LEADS[1].ref].context = <<>>

\* a pass has worked on a lead of higher score before one of lower score,
\* with a lead that was never scored left alone
C19_WitnessScore ==
  \E t \in Threads :
    /\ pc[t] = "deep_loop"
    /\ loc[t].li = 3
    /\ heap[loc[t].targets[1]].score > heap[loc[t].targets[2]].score
    /\ heap[LEADS[1].ref].score < heap[LEADS[2].ref].score

\* C20: within one deep pass no URL is handed to the fetcher more than once,
\* be it a base URL of a lead or a ranked link, of one lead or of several.
C20_NoUrlFetchedTwice ==
  \A t \in Threads :
    pc[t] = "deep_loop"
      => \A i, j \in DOMAIN loc[t].fetched :
           i # j => loc[t].fetched[i] # loc[t].fetched[j]


\* the hosts a link of a lead may be on: that of its website, or, for a lead
\* without a website, those of its base URLs
OwnHosts(lead) ==
  IF ~Falsy(lead.website) THEN {netloc(lead.website)}
  ELSE {netloc(u) : u \in Range(BaseUrls(lead))}

\* C21: in a deep pass with same_domain_only no discovered link on a host
\* other than that of the lead's website is fetched for the lead, be the
\* website recorded or not.
C21_SameDomainOnly ==
  [][\A t \in Threads :
       (DeepLeadStep(t) /\ loc[t].req.same_domain_only)
         => \A u \in loc'[t].visited_global \ loc[t].visited_global :
              netloc(u) \in OwnHosts(heap[loc[t].targets[loc[t].li]])]_vars


----------------------------------------------------------------------------
(* enrich and enrich_deep: what a pass does to the leads.                  *)

EnrichLeadStep(t) == pc[t] = "enrich_loop" /\ loc'[t].li = loc[t].li + 1

InPass(t) == pc[t] \in {"enrich_loop", "deep_loop"}

C22_WitnessDeep ==
  \E t \in Threads :
    /\ pc[t] = "deep_loop"
    /\ loc[t].li = 2
    /\ Len(loc[t].targets) = 2
    /\ loc[t].fetched # <<>>
    /\ ~loc[t].got



----------------------------------------------------------------------------
(* The contacts of a lead.                                                 *)

\* the entries of a list that carry the value v in field f
Holding(contacts, f, v) == {i \in DOMAIN contacts : contacts[i][f] = v}

C24_ListCaps ==
  \A r \in DOMAIN heap :
    /\ Len(heap[r].contacts) <= 50
    /\ heap[r].context # <<>>
         => /\ Len(heap[r].context[1].partners) <= 25
            /\ Len(heap[r].context[1].sectors) <= 25
            /\ Len(heap[r].context[1].recent_projects) <= 25

\* a lead whose pages gave sixty contacts and forty sectors: both lists
\* were cut
C24_Witness ==
  \E r \in DOMAIN heap :
    /\ Len(heap[r].contacts) = 50
    /\ heap[r].context # <<>>
    /\ Len(heap[r].context[1].sectors) = 25
    /\ \E i \in DOMAIN heap[r].contacts :
         heap[r].contacts[i].name = <<"n", 2, 1>>


----------------------------------------------------------------------------
(* Fields that are written once.                                           *)

FirstFoundFields == {"contact_url", "contact_email", "phone"}

\* C25: a contact_url, contact_email or phone that is not None keeps its
\* value through every step of a scan, of enrich, of enrich_deep and of
\* score
C25_FirstFoundWins ==
  [][\A r \in DOMAIN heap :
       \A f \in FirstFoundFields :
         heap[r][f] # NoneS => heap'[r][f] = heap[r][f]]_vars

\* a lead that has the contact link of one page and the e-mail address that
\* only a page with another contact link shows, and a phone number, while a
\* further deep pass has read a page for it
C25_Witness ==
  \E r \in DOMAIN heap :
    /\ heap[r].contact_url = urljoin(ETG_URL, PageSite.contact)
    /\ heap[r].contact_email = PageKontakt.email
    /\ heap[r].phone = PagePhone("2").phone
    /\ Len(heap[r].sources) = 2
    /\ pc[1] = "deep_loop"
    /\ loc[1].li = 2
    /\ loc[1].got


----------------------------------------------------------------------------
(* Listing and export.                                                     *)

\* the place of a lead in LEADS
LeadIx(r) == CHOOSE i \in DOMAIN LEADS : LEADS[i].ref = r

\* the leads a query of GET /v1/leads asks for
Matching(q) ==
  {r \in {LEADS[i].ref : i \in DOMAIN LEADS} :
     /\ q.priority # None => heap[r].priority_class = q.priority
     /\ q.country # NoneS => upper(heap[r].country) = upper(q.country)}

\* HOT before WARM before COLD; a lead that was never scored counts as COLD
TierOf(r) ==
  CASE heap[r].priority_class = "HOT" -> 0
    [] heap[r].priority_class = "WARM" -> 1
    [] OTHER -> 2

\* lead a comes before lead b by tier, then by falling score, then by
\* country, then by company name
ListedBefore(a, b) ==
  \/ TierOf(a) < TierOf(b)
  \/ /\ TierOf(a) = TierOf(b)
     /\ heap[a].score > heap[b].score
  \/ /\ TierOf(a) = TierOf(b)
     /\ heap[a].score = heap[b].score
     /\ StrLess(heap[a].country, heap[b].country)
  \/ /\ TierOf(a) = TierOf(b)
     /\ heap[a].score = heap[b].score
     /\ heap[a].country = heap[b].country
     /\ StrLess(heap[a].company_name, heap[b].company_name)

\* the number of leads of S that come before r, leads of equal keys in the
\* order of LEADS
Place(S, r) ==
  Cardinality({m \in S \ {r} :
                 \/ ListedBefore(m, r)
                 \/ ~ListedBefore(r, m) /\ LeadIx(m) < LeadIx(r)})

ListReturnStep(t) == pc[t] = "list" /\ pc'[t] = "idle"

\* the bound i of a slice of a list of n entries: a bound past the end is
\* the end, a negative bound is counted from the end
SliceBound(i, n) == IF i < 0 THEN Max(0, n + i) ELSE Min(i, n)

\* C27: the page returned for a query has for total the number of leads
\* that match the priority and the country, whatever limit and offset are;
\* its items are the slice [offset, offset + limit) of the matching leads
\* in the order of tier, falling score, country and company name: for a
\* limit and an offset that are not negative the leads of places offset,
\* ..., offset + limit - 1, so that the pages of offsets 0, limit,
\* 2 * limit, ... hold every matching lead once; and the call changes no
\* lead
C27_ListPage ==
  [][\A t \in Threads :
       ListReturnStep(t) =>
         LET q == loc[t].req
             page == resp'[t].body
             lo == SliceBound(q.offset, page.total)
             hi == SliceBound(q.offset + q.limit, page.total)
         IN  /\ page.total = Cardinality(Matching(q))
             /\ Len(page.items) = Max(0, hi - lo)
             /\ \A k \in DOMAIN page.items :
                  /\ page.items[k] \in Matching(q)
                  /\ Place(Matching(q), page.items[k]) = lo + k - 1
             /\ (q.offset >= 0 /\ q.limit >= 0) =>
                  /\ lo = Min(q.offset, page.total)
                  /\ Len(page.items)
                       = Max(0, Min(q.limit, page.total - q.offset))
             /\ heap' = heap
             /\ LEADS' = LEADS]_vars

\* a page of two leads out of three or more, the first of which is in
\* LEADS after the second
C27_Witness ==
  /\ resp[1].kind = "page"
  /\ resp[1].body.total >= 3
  /\ Len(resp[1].body.items) = 2
  /\ LeadIx(resp[1].body.items[1]) > LeadIx(resp[1].body.items[2])

\* a page of two leads of different tiers, the first of which is in LEADS
\* after the second
C27_WitnessTiers ==
  /\ resp[1].kind = "page"
  /\ Len(resp[1].body.items) = 2
  /\ TierOf(resp[1].body.items[1]) < TierOf(resp[1].body.items[2])
  /\ LeadIx(resp[1].body.items[1]) > LeadIx(resp[1].body.items[2])


ExportReturnStep(t) == pc[t] = "export" /\ pc'[t] = "idle"

AllLeads == {LEADS[i].ref : i \in DOMAIN LEADS}

\* the rows are in the order HOT, WARM, COLD and by falling score within a
\* tier, and no lead is there twice
TierOrdered(rows) ==
  \A i, j \in DOMAIN rows :
    i < j => /\ rows[i] # rows[j]
             /\ TierOf(rows[i]) <= TierOf(rows[j])
             /\ TierOf(rows[i]) = TierOf(rows[j])
                  => heap[rows[i]].score >= heap[rows[j]].score

\* C28 as the code keeps it: an export with min_score m holds the leads of
\* score >= int(m), m cut to a whole number, which for a whole m are the
\* leads of score >= m; the rows are in the order HOT, WARM, COLD and by
\* falling score within a tier; and the export changes no lead
C28_ExportRows ==
  [][\A t \in Threads :
       ExportReturnStep(t) =>
         LET m == loc[t].req.min_score
             rows == resp'[t].body
         IN  /\ Range(rows)
                  = {r \in AllLeads : m = <<>> \/ heap[r].score >= int(m[1])}
             /\ (m # <<>> /\ m[1] % 10 = 0)
                  => Range(rows)
                       = {r \in AllLeads : heap[r].score * 10 >= m[1]}
             /\ TierOrdered(rows)
             /\ heap' = heap
             /\ LEADS' = LEADS]_vars

\* C28 as stated: an export with min_score m holds the leads of score >= m
C28_ExactlyMinScore ==
  [][\A t \in Threads :
       (ExportReturnStep(t) /\ loc[t].req.min_score # <<>>)
         => Range(resp'[t].body)
              = {r \in AllLeads :
                   heap[r].score * 10 >= loc[t].req.min_score[1]}]_vars

\* an export of two leads of different tiers, the first of which is in
\* LEADS after the second
C28_Witness ==
  /\ resp[1].kind = "export"
  /\ Len(resp[1].body) = 2
  /\ TierOf(resp[1].body[1]) < TierOf(resp[1].body[2])
  /\ LeadIx(resp[1].body[1]) > LeadIx(resp[1].body[2])

\* an export that holds one of two scored leads
C28_WitnessFiltered ==
  /\ resp[1].kind = "export"
  /\ Len(resp[1].body) = 1
  /\ \E r \in AllLeads : heap[r].score = 64 /\ r \notin Range(resp[1].body)


----------------------------------------------------------------------------
(* Lists that only grow.                                                   *)

ContextLists == {"sectors", "partners", "recent_projects", "languages"}

\* C26: through every step of a scan, of enrich, of enrich_deep, of score,
\* of a listing and of an export, every entry of the stack_tags and of the
\* sources of a lead stays, a context once there stays, and every entry of
\* its sectors, technologies, partners, recent_projects and languages stays
C26_ListsOnlyGrow ==
  [][\A r \in DOMAIN heap :
       /\ Range(heap[r].stack_tags) \subseteq Range(heap'[r].stack_tags)
       /\ Len(heap[r].sources) <= Len(heap'[r].sources)
       /\ SubSeq(heap'[r].sources, 1, Len(heap[r].sources)) = heap[r].sources
       /\ heap[r].context # <<>> =>
            /\ heap'[r].context # <<>>
            /\ heap[r].context[1].technologies
                 \subseteq heap'[r].context[1].technologies
            /\ \A f \in ContextLists :
                 Range(heap[r].context[1][f])
                   \subseteq Range(heap'[r].context[1][f])]_vars

\* a lead merged from two candidates whose sectors were cut to 25 after a
\* second page added to the twenty of a first, and whose stack_tags grew
\* in a pass
C26_Witness ==
  \E r \in DOMAIN heap :
    /\ Len(heap[r].sources) = 2
    /\ Len(heap[r].stack_tags) >= 2
    /\ heap[r].context # <<>>
    /\ Len(heap[r].context[1].sectors) = 25
    /\ heap[r].context[1].sectors[1] = <<"s", "1", 1>>
    /\ heap[r].context[1].sectors[25] = <<"s", "2", 5>>
    /\ heap[r].context[1].technologies # {}


----------------------------------------------------------------------------
(* The status query.                                                       *)

\* thread t is answered on a status query in this step
GetJobStep(t) ==
  /\ resp'[t] # resp[t]
  /\ pc[t] = "idle"
  /\ pc'[t] = "idle"
  /\ resp'[t].kind \in {"job", "error"}
  /\ resp'[t].job_id # NoJob

\* C29: a status query for an id that no job of the registry has is
\* answered "not_found", with nothing of any job in the answer, and no job
\* has that status; the registry is as it was
C29_UnknownJobNotFound ==
  [][\A t \in Threads :
       (/\ GetJobStep(t)
        /\ \A i \in DOMAIN JOBS : JOBS[i].job_id # resp'[t].job_id)
         => /\ resp'[t].status = "not_found"
            /\ resp'[t].body = <<>>
            /\ \A i \in DOMAIN JOBS : JOBS[i].status # "not_found"
            /\ JOBS' = JOBS]_vars

\* a query for an unknown id was answered while the registry holds a job
C29_Witness ==
  \E t \in Threads :
    /\ resp[t].kind = "job"
    /\ resp[t].status = "not_found"
    /\ resp[t].job_id = UnknownJob
    /\ JOBS # <<>>

\* the same for the skeleton, which answers with an error
C29_WitnessSkeleton ==
  \E t \in Threads :
    /\ resp[t].kind = "error"
    /\ resp[t].status = "not_found"
    /\ resp[t].job_id = UnknownJob
    /\ JOBS # <<>>


----------------------------------------------------------------------------
(* The requests for robots.txt.                                            *)

\* the requests that left the client for the robots.txt of the host of u
RobotsRequests(u) == {k \in DOMAIN wire : wire[k].url = robots_url(u)}

\* C30: while robots are respected the client sends one request at most
\* for the robots.txt of a host, on the first get to the host, and none on
\* a later get, whether that request was answered with a body or failed
C30_OneRobotsRequest ==
  respect_robots => \A u \in PageUrls : Cardinality(RobotsRequests(u)) <= 1


----------------------------------------------------------------------------
(* The tasks of a scan.                                                    *)

\* thread t collects a task in this step
Collected(t) == loc'[t].collected \ loc[t].collected

\* thread t is done with a row in this step
RowDone(t) ==
  /\ pc[t] \in {"upsert", "up_tags"}
  /\ pc'[t] = "scan_rows"

\* C31: the adapter of a task is called MAX_RETRIES times at most; a task
\* whose adapter call returned adds nothing to errors and every row of it
\* that has been upserted is in the store and adds 1 to found; a task
\* whose adapter raised MAX_RETRIES times adds 1 to errors, nothing to
\* found and no Lead; found changes with an upsert only; and the job gets
\* the found and the errors counted, errors being the number of failed
\* tasks
C31_TaskRetries ==
  [][\A t \in Threads :
       /\ \A i \in DOMAIN loc'[t].calls : loc'[t].calls[i] <= MAX_RETRIES
       /\ \A i \in Collected(t) :
            IF i \in loc'[t].failed
            THEN /\ loc[t].calls[i] = MAX_RETRIES
                 /\ loc'[t].errors = loc[t].errors + 1
                 /\ loc'[t].found = loc[t].found
                 /\ loc'[t].rows = <<>>
                 /\ heap' = heap
                 /\ LEADS' = LEADS
            ELSE /\ loc'[t].errors = loc[t].errors
                 /\ loc'[t].found = loc[t].found
       /\ RowDone(t) =>
            /\ loc'[t].rows = Tail(loc[t].rows)
            /\ loc'[t].found = loc[t].found + 1
            /\ loc'[t].errors = loc[t].errors
            /\ \E k \in DOMAIN LEADS' : LEADS'[k].cid = Cid(Rc(t))
       /\ (pc'[t] # "idle" /\ pc[t] # "idle"
             /\ loc'[t].found # loc[t].found) => RowDone(t)
       /\ pc[t] = "scan_found" =>
            JOBS'[JobIx(t)].found = loc[t].found
       /\ pc[t] = "scan_errors" =>
            /\ JOBS'[JobIx(t)].errors = loc[t].errors
            /\ loc[t].errors = Cardinality(loc[t].failed)]_vars

\* a scan of two tasks at the point where the job has its counts: one
\* task raised MAX_RETRIES times, the other returned a row on its third
\* call
C31_Witness ==
  /\ pc[1] = "scan_progress"
  /\ JOBS[1].found = 1
  /\ JOBS[1].errors = 1
  /\ \E i, j \in DOMAIN loc[1].calls :
       /\ loc[1].calls[i] = MAX_RETRIES
       /\ i \in loc[1].failed
       /\ loc[1].calls[j] = 3
       /\ j \notin loc[1].failed
  /\ Len(LEADS) = 1


\* the scan of thread t has written its counts to the job
ScanCounted(t) == pc[t] = "scan_progress"

\* C33: a scan during which every fetch fails ends with found 0 and with
\* errors equal to the number of tasks of its grid
C33_FullErrors ==
  \A t \in Threads :
    ScanCounted(t) =>
      /\ JOBS[JobIx(t)].found = 0
      /\ JOBS[JobIx(t)].errors = Len(loc[t].tasks)

\* a scan during which every fetch fails ends with found 0 and errors 0
OfflineScanCountsNothing ==
  \A t \in Threads :
    ScanCounted(t) =>
      /\ JOBS[JobIx(t)].found = 0
      /\ JOBS[JobIx(t)].errors = 0
      /\ LEADS = <<>>


\* the countries that a list of tokens names
CountriesOf(tokens) ==
  UNION {LET cu == upper(strip(tok))
         IN  IF cu \in RegionKeys THEN Range(REGION_EXPANSIONS(cu)) ELSE {cu}
         : tok \in Range(tokens)}

\* the request names every adapter
AllSources(req_sources) ==
  \E i \in DOMAIN req_sources : upper(req_sources[i]) = ALL

\* how often a request names the registered source s
TimesNamed(req_sources, s) ==
  Cardinality({i \in DOMAIN req_sources : req_sources[i] = s})

\* lists of tokens whose regions overlap
AliasTokens ==
  {<<<<"I","B","E","R","I","A">>, <<"e","u">>>>,
   <<<<"E","E","A">>, <<"n","o","r","d","i","c","s">>, <<"D","A","C","H">>>>,
   <<<<"E","U","_","E","E","A","_","P","L","U","S">>, <<"c","e","e">>, <<"U","K">>>>}

\* the scan of thread t has submitted its tasks and not yet returned
ScanRunning(t) == ScanInFlight(t) \/ pc[t] \in {"scan_found", "scan_errors", "scan_progress"}

\* C32: the task grid of a scan holds each pair of a source and a country
\* once: no two tasks of a scan have the same source and country
C32_EachPairOnce ==
  \A t \in Threads :
    ScanRunning(t) =>
      \A i, j \in DOMAIN loc[t].tasks :
        i # j => loc[t].tasks[i] # loc[t].tasks[j]

\* the countries of a scan are the upper-cased tokens and the members of
\* the regions named, each once; a source list that holds ALL gives every
\* registered adapter once; the tasks are the pairs of these sources and
\* countries, a pair as often as the request names its source (once when
\* it names it once or names ALL); and every task is called once and
\* collected once
TaskGridOfRequest ==
  /\ \A t \in Threads :
       ScanRunning(t) =>
         LET req == JOBS[JobIx(t)].params
             tasks == loc[t].tasks
         IN  /\ Range(loc[t].countries) = CountriesOf(req.countries)
             /\ Len(loc[t].countries) = Cardinality(CountriesOf(req.countries))
             /\ AllSources(req.sources) => loc[t].sources = ADAPTERS
             /\ Range(tasks) =
                  {[src |-> s, country |-> c] :
                     s \in Range(loc[t].sources), c \in Range(loc[t].countries)}
             /\ \A i \in DOMAIN tasks :
                  /\ tasks[i].src \in Range(ADAPTERS)
                  /\ Cardinality({j \in DOMAIN tasks : tasks[j] = tasks[i]}) =
                       IF AllSources(req.sources) THEN 1
                       ELSE TimesNamed(req.sources, tasks[i].src)
                  /\ loc[t].calls[i] = IF i \in loc[t].collected THEN 1 ELSE 0
             /\ ~ScanInFlight(t) => loc[t].collected = DOMAIN tasks
  /\ \A tokens \in AliasTokens :
       LET countries == SortedSet(Range(expand_countries(tokens)))
           tasks == task_grid(<<ETG>>, countries)
       IN  /\ Range(countries) = CountriesOf(tokens)
           /\ Len(countries) = Cardinality(CountriesOf(tokens))
           /\ Len(tasks) = Cardinality(Range(tasks))
           /\ Len(tasks) = Len(countries)


----------------------------------------------------------------------------
(* The page budget of a deep pass.                                         *)

\* the target of the deep pass of thread t
Target(t) == heap[loc[t].targets[loc[t].li]]

\* the base URLs of the target that the pass has not visited
PagesToVisit(t) ==
  SelectSeq(BaseUrls(Target(t)), LAMBDA u : u \notin loc[t].visited_global)

\* the links that this step hands to fetch, in the order of the calls
LinksFetched(t) ==
  SubSeq(loc'[t].fetched, Len(loc[t].fetched) + Len(PagesToVisit(t)) + 1,
         Len(loc'[t].fetched))

\* a link that the pass may fetch for its target
Eligible(t, url) ==
  /\ url \notin loc[t].visited_global
  /\ ~(/\ loc[t].req.same_domain_only
       /\ Truthy(Target(t).website)
       /\ netloc(url) # <<>>
       /\ netloc(url) # netloc(Target(t).website))

\* the best score with which url is among the links
ScoreOf(links, url) ==
  CHOOSE s \in {links[k].score : k \in DOMAIN links} :
    /\ \E k \in DOMAIN links : links[k].url = url /\ links[k].score = s
    /\ \A k \in DOMAIN links : links[k].url = url => links[k].score <= s

\* C34: for a target of a deep pass max_pages_per_lead links at most are
\* fetched; they are links found on its base pages and not visited before,
\* each fetched once, in an order of falling score; a link that is left
\* out though it could be fetched scores no more than any fetched one and
\* is left out because the budget is used up, by fetches that returned a
\* page or failed
C34_PageBudget ==
  [][\A t \in Threads :
       (DeepLeadStep(t) /\ BaseUrls(Target(t)) # <<>>) =>
         \E page \in {NoPage, PageSite} :
           LET links == ScoredLinks(PagesToVisit(t), page)
               urls == {links[k].url : k \in DOMAIN links}
               new == LinksFetched(t)
           IN  /\ Len(new) <= loc[t].req.max_pages_per_lead
               /\ loc'[t].got = (page.ok /\ PagesToVisit(t) # <<>>)
               /\ \A k \in DOMAIN new :
                    /\ new[k] \in urls
                    /\ Eligible(t, new[k])
                    /\ \A l \in DOMAIN new :
                         k < l => /\ new[k] # new[l]
                                  /\ ScoreOf(links, new[k]) >= ScoreOf(links, new[l])
               /\ \A u \in urls :
                    (Eligible(t, u) /\ u \notin Range(new)) =>
                      /\ Len(new) = loc[t].req.max_pages_per_lead
                      /\ \A k \in DOMAIN new :
                           ScoreOf(links, new[k]) >= ScoreOf(links, u)]_vars

\* a pass with a budget of 2 is done with a lead of two base pages: their
\* four links name three urls, the two contact links were fetched, both
\* fetches failed, and the third link was left out
C34_Witness ==
  /\ pc[1] = "deep_loop"
  /\ loc[1].li = 2
  /\ loc[1].req.max_pages_per_lead = 2
  /\ ~loc[1].req.same_domain_only
  /\ Len(loc[1].fetched) = 4
  /\ loc[1].fetched[3] = urljoin(ETG_URL, PageSite.contact)
  /\ AcmeSite \notin Range(loc[1].fetched)
  /\ heap[loc[1].targets[1]].contacts = <<>>
  /\ heap[loc[1].targets[1]].contact_email = NoneS


----------------------------------------------------------------------------
(* The status a pass answers with.                                         *)

\* thread t answers in this step that the job is enriched or scored
PassAnswered(t) ==
  /\ resp'[t] # resp[t]
  /\ resp'[t].kind = "accepted"
  /\ resp'[t].status \in {"enriched", "scored"}

\* C35: when enrich, enrich_deep or score answers with a job_id and the
\* status enriched or scored, the registry holds a job of that id and the
\* job has that status
C35_AnswerIsRegistryStatus ==
  [][\A t \in Threads :
       PassAnswered(t) =>
         \E i \in DOMAIN JOBS' :
           /\ JOBS'[i].job_id = resp'[t].job_id
           /\ JOBS'[i].status = resp'[t].status]_vars

\* a pass that answers for a job of the registry has given the job the
\* status of its answer
AnswerForKnownJob ==
  [][\A t \in Threads :
       (PassAnswered(t) /\ resp'[t].job_id \in JobIds) =>
         \E i \in DOMAIN JOBS' :
           /\ JOBS'[i].job_id = resp'[t].job_id
           /\ JOBS'[i].status = resp'[t].status]_vars


----------------------------------------------------------------------------
(* Passes over the store while a scan adds leads.                          *)

\* thread t ends a pass over the store in this step
PassEnds(t) ==
  /\ pc[t] \in {"enrich_loop", "score_loop", "list"}
  /\ pc'[t] = "idle"

\* C36: a pass that began on a store with leads, while the scan of another
\* thread adds leads, ends without an error and has gone through every
\* lead that was in the store when it began
C36_PassSurvivesInserts ==
  [][\A t \in Threads :
       (PassEnds(t) /\ loc[t].n0 > 0) =>
         /\ resp'[t].kind # "error"
         /\ pc[t] \in {"enrich_loop", "score_loop"} => loc[t].li > loc[t].n0]_vars

\* a listing answers with the leads that were in the store when it began,
\* whatever a scan has added since
ListSurvivesInserts ==
  [][\A t \in Threads :
       (PassEnds(t) /\ pc[t] = "list") =>
         /\ resp'[t].kind = "page"
         /\ resp'[t].body.total = loc[t].n0]_vars


----------------------------------------------------------------------------
(* The score and the priority class of a lead.                             *)

\* the lead was never scored, or its class is the tier of its score
Tiered(lead) ==
  \/ lead.priority_class = None /\ lead.score = 0
  \/ lead.priority_class = "HOT" /\ lead.score >= 70
  \/ lead.priority_class = "WARM" /\ lead.score >= 45 /\ lead.score <= 69
  \/ lead.priority_class = "COLD" /\ lead.score < 45

\* a scoring pass scores the lead of reference r in this step
ScoresLead(t, r) ==
  /\ pc[t] = "score_loop"
  /\ loc'[t].li = loc[t].li + 1
  /\ LEADS[loc[t].li].ref = r

\* no scoring pass is between the two assignments of lines 714 and 715
NoClassPending == \A t \in Threads : pc[t] # "score_class"

\* C37: in every state in which no scoring pass has written the score of
\* a lead and not yet its class, every lead is unscored, with no class and
\* score 0, or has the class that is the tier of its stored score, HOT
\* from 70, WARM from 45 to 69, COLD below 45
C37_ClassIsTierOfScore ==
  NoClassPending => \A r \in DOMAIN heap : Tiered(heap[r])

\* with the requests served one after the other every lead is unscored or
\* has the class of its stored score; a step that changes the score or the
\* class of a lead is a step of the scoring pass at that lead and leaves it
\* with a class; and a new lead is unscored
ClassIsTierOfScoreInTurn ==
  [][/\ \A r \in DOMAIN heap' : Tiered(heap'[r])
     /\ \A r \in DOMAIN heap :
          (\/ heap'[r].score # heap[r].score
           \/ heap'[r].priority_class # heap[r].priority_class)
          => /\ \E t \in Threads : ScoresLead(t, r)
             /\ heap'[r].priority_class # None
     /\ \A r \in DOMAIN heap' \ DOMAIN heap :
          heap'[r].priority_class = None /\ heap'[r].score = 0]_vars


----------------------------------------------------------------------------
(* The tags of a lead.                                                     *)

\* C38: in every state no lead has a tag twice in its stack_tags
C38_NoTagTwice ==
  \A r \in DOMAIN heap :
    \A i, j \in DOMAIN heap[r].stack_tags :
      i # j => heap[r].stack_tags[i] # heap[r].stack_tags[j]

\* a step leaves the tags a lead has in their places and adds tags behind
\* them
TagsKeepOrder ==
  [][\A r \in DOMAIN heap :
       /\ Len(heap'[r].stack_tags) >= Len(heap[r].stack_tags)
       /\ SubSeq(heap'[r].stack_tags, 1, Len(heap[r].stack_tags))
            = heap[r].stack_tags]_vars

-----------------------------------------------------------------------------
(* The skeleton API, lead_radar_api_skeleton_v_1.py: its handlers run to   *)
(* the end within the request, on registries JOBS and LEADS of its own.    *)

\* most jobs the skeleton registers in its specification
MaxSkeletonJobs == 3

\* WEIGHTS["signals"], by the source that gives the signal, lines 275-289
SkSignal(name) ==
  CASE name = ETG -> 40
    [] name = UR -> 35
    [] name = SIEMENS -> 40
    [] name = <<"R","O","C","K","W","E","L","L">> -> 40
    [] name = <<"F","A","I","R","S">> -> 25
    [] name = <<"C","L","U","S","T","E","R","S">> -> 20
    [] name = <<"O","D","V","A">> -> 45
    [] OTHER -> 0

RECURSIVE SkSignals(_)
SkSignals(sources) ==
  IF sources = <<>> THEN 0
  ELSE SkSignal(Head(sources).name) + SkSignals(Tail(sources))

\* WEIGHTS["stacks"], lines 291-294: each tag counts once
SkStacks(stacks) ==
  (IF "EtherCAT" \in stacks THEN 18 ELSE 0)
    + (IF "PROFINET" \in stacks THEN 16 ELSE 0)
    + (IF "EtherNet/IP" \in stacks THEN 16 ELSE 0)
    + (IF "ROS2" \in stacks THEN 12 ELSE 0)
    + (IF "UR" \in stacks THEN 10 ELSE 0)
    + (IF "Safety" \in stacks THEN 6 ELSE 0)

SkFieldbus(stacks) == {"EtherCAT", "PROFINET", "EtherNet/IP"} \cap stacks # {}

\* WEIGHTS["combos"], lines 296-307
SkCombos(stacks) ==
  (IF {"EtherCAT", "TwinCAT"} \subseteq stacks THEN 15 ELSE 0)
    + (IF {"PROFINET", "TIA"} \subseteq stacks THEN 15 ELSE 0)
    + (IF {"EtherNet/IP", "Studio5000"} \subseteq stacks THEN 15 ELSE 0)
    + (IF {"UR", "ROS2"} \subseteq stacks THEN 10 ELSE 0)
    + (IF "UR" \in stacks /\ SkFieldbus(stacks) THEN 8 ELSE 0)
    + (IF SkFieldbus(stacks) /\ "Vision" \in stacks THEN 5 ELSE 0)

SK_CORE_COUNTRIES ==
  {<<"D","K">>, <<"D","E">>, <<"N","L">>, <<"S","E">>, <<"I","T">>,
   <<"F","R">>, <<"E","S">>, <<"P","L">>, <<"C","Z">>, <<"A","T">>}

\* WEIGHTS["context"], lines 309-314
SkContext(lead) ==
  (IF upper(lead.country) \in SK_CORE_COUNTRIES THEN 10 ELSE 0)
    + (IF lead.segment = "SI" THEN 8
       ELSE IF lead.segment = "Distributor" THEN 6 ELSE 0)

\* simple_score, lines 271-316
simple_score(lead) ==
  Max(0, Min(100, SkSignals(lead.sources) + SkStacks(Range(lead.stack_tags))
                    + SkCombos(Range(lead.stack_tags)) + SkContext(lead)))

\* classify_priority, lines 263-268
classify_priority(score) ==
  IF score >= 80 THEN "HOT" ELSE IF score >= 60 THEN "WARM" ELSE "COLD"

\* best_source_label, lines 246-260: the label of the first hit of the
\* highest strength, the name itself for a source the mapping lacks
best_source_label(sources) ==
  IF sources = <<>> THEN <<>>
  ELSE LET first == CHOOSE i \in DOMAIN sources :
                      /\ sources[i].strength = MaxStrength(sources)
                      /\ \A j \in 1..(i - 1) :
                           sources[j].strength # MaxStrength(sources)
           name == sources[first].name
       IN  CASE name = ETG -> <<"ETG product">>
             [] name = UR -> <<"UR ecosystem">>
             [] name = SIEMENS -> <<"Siemens Partner">>
             [] name = <<"R","O","C","K","W","E","L","L">> -> <<"Rockwell Partner">>
             [] name = <<"F","A","I","R","S">> -> <<"Trade fair exhibitor">>
             [] name = <<"C","L","U","S","T","E","R","S">> -> <<"Cluster member">>
             [] name = <<"O","D","V","A">> -> <<"ODVA DOC">>
             [] OTHER -> name

\* the stack pair that make_reason and make_pitch name, lines 322-330 and
\* 338-347
SkCombo(stacks) ==
  IF {"EtherCAT", "TwinCAT"} \subseteq stacks THEN "ECAT+TwinCAT"
  ELSE IF {"PROFINET", "TIA"} \subseteq stacks THEN "PN+TIA"
  ELSE IF {"EtherNet/IP", "Studio5000"} \subseteq stacks THEN "EIP+Studio5000"
  ELSE IF {"UR", "ROS2"} \subseteq stacks THEN "UR+ROS2"
  ELSE "None"

\* make_reason, lines 319-333: the parts of the text in their order; the
\* texts of these leads are shorter than the 120 characters kept
make_reason(lead) ==
  best_source_label(lead.sources) \o <<SkCombo(Range(lead.stack_tags))>>
    \o lead.country \o <<lead.segment>>

\* make_pitch, lines 336-350: the body chosen and the id of the tracker
\* link; the texts of these leads are shorter than the 280 characters kept
make_pitch(lead) == <<SkCombo(Range(lead.stack_tags))>> \o lead.company_id

\* normalize_name, lines 233-238, of a name that holds no legal suffix, no
\* stop word and no run of blanks
normalize_name(name) == lower(strip(name))

\* company_id_from of the skeleton, lines 241-243; the digest prefix is
\* taken to be collision free and is written as the text it is the digest of
SkCompanyIdFrom(domain, name, country) ==
  (IF Falsy(domain) THEN normalize_name(name) ELSE domain)
    \o <<"|">> \o upper(country)

\* LEADS.get(cid) in a registry st
SkLeadsGet(st, cid) ==
  IF \E i \in DOMAIN st.LEADS : st.LEADS[i].cid = cid
  THEN st.LEADS[CHOOSE i \in DOMAIN st.LEADS : st.LEADS[i].cid = cid].ref
  ELSE 0

\* the Lead of lines 507-515
SkNewLead(cid, rc) ==
  [company_id |-> cid, company_name |-> rc.name, country |-> rc.country,
   website |-> rc.website, segment |-> "OEM", stack_tags |-> <<"EtherCAT">>,
   sources |-> <<[name |-> rc.source, strength |-> 90,
                  source_url |-> rc.source_url]>>,
   score |-> 0, priority_class |-> None, contact_email |-> NoneS,
   contact_url |-> NoneS, reason |-> NoneS, pitch |-> NoneS,
   context |-> <<>>, contacts |-> <<>>, phone |-> NoneS]

\* upsert_lead_from_raw of the skeleton, lines 501-524, on a registry st
SkUpsert(st, rc) ==
  LET cid == SkCompanyIdFrom(rc.website, rc.name, rc.country)
      ref == SkLeadsGet(st, cid)
  IN  IF ref = 0
      THEN [LEADS |-> Append(st.LEADS, [cid |-> cid, ref |-> Len(st.heap) + 1]),
            heap |-> Append(st.heap, SkNewLead(cid, rc))]
      ELSE [LEADS |-> st.LEADS,
            heap |-> [st.heap EXCEPT
               ![ref].sources =
                  Append(@, [name |-> rc.source, strength |-> 90,
                             source_url |-> rc.source_url]),
               ![ref].website =
                  IF @ = NoneS /\ Truthy(rc.website) THEN rc.website ELSE @,
               ![ref].stack_tags =
                  IF "EtherCAT" \notin Range(@) THEN Append(@, "EtherCAT")
                  ELSE @]]

\* lines 545-547: every row of a scan is upserted in its turn
RECURSIVE SkUpsertAll(_, _)
SkUpsertAll(st, rows) ==
  IF rows = <<>> THEN st
  ELSE SkUpsertAll(SkUpsert(st, Head(rows)), Tail(rows))

\* the rows a scan handles, lines 538-547: for each source that is ETG, the
\* rows of each country
RECURSIVE SkCountryRows(_, _)
SkCountryRows(countries, rowsOf) ==
  IF countries = <<>> THEN <<>>
  ELSE rowsOf[Head(countries)] \o SkCountryRows(Tail(countries), rowsOf)

RECURSIVE SkScanRows(_, _, _)
SkScanRows(sources, countries, rowsOf) ==
  IF sources = <<>> THEN <<>>
  ELSE (IF Head(sources) = ETG THEN SkCountryRows(countries, rowsOf) ELSE <<>>)
         \o SkScanRows(Tail(sources), countries, rowsOf)

\* lines 551-554: the message names each source that is not ETG
RECURSIVE SkScanMessage(_, _)
SkScanMessage(sources, message) ==
  IF sources = <<>> THEN message
  ELSE SkScanMessage(Tail(sources),
         IF Head(sources) = ETG THEN message
         ELSE OrEmpty(message) \o <<" Source ">> \o Head(sources)
                \o <<" not implemented in skeleton;">>)

\* the id of the job a skeleton handler registers: the prefix, the time and
\* six digits of a uuid4, taken never to repeat
SkJobId(kind) == [kind |-> kind, n |-> Len(JOBS) + 1]

\* start_scan of the skeleton, lines 527-561; ETGAdapter.scan catches what a
\* fetch raises, and rowsOf gives the rows it returns for a country
SkStartScan(t, req, rowsOf) ==
  /\ pc[t] = "idle"
  /\ Len(JOBS) < MaxSkeletonJobs
  /\ LET rows == SkScanRows(req.sources, req.countries, rowsOf)
         st == SkUpsertAll([LEADS |-> LEADS, heap |-> heap], rows)
         job == [JobStatus(SkJobId("scan"), "scanned") EXCEPT
                   !.found = Len(rows), !.errors = 0,
                   !.progress = [s \in Range(req.sources) |-> 100],
                   !.message = SkScanMessage(req.sources, NoneS)]
     IN  /\ LEADS' = st.LEADS
         /\ heap' = st.heap
         /\ JOBS' = Append(JOBS, job)
         /\ resp' = [resp EXCEPT ![t] = JobAccepted(job.job_id, job.status)]
  /\ UNCHANGED <<pc, loc, idVars, httpVars>>

\* export_leads, lines 649-654
SkExportLeads(t) ==
  /\ pc[t] = "idle"
  /\ Len(JOBS) < MaxSkeletonJobs
  /\ JOBS' = Append(JOBS, JobStatus(SkJobId("export"), "exported"))
  /\ resp' = [resp EXCEPT ![t] = JobAccepted(SkJobId("export"), "exported")]
  /\ UNCHANGED <<LEADS, heap, pc, loc, idVars, httpVars>>

\* a request of start_enrich or start_score arrives; loc.job_id is req.job_id
SkRequest(t, handler, job_id) ==
  /\ pc[t] = "idle"
  /\ Len(JOBS) < MaxSkeletonJobs
  /\ pc' = [pc EXCEPT ![t] = handler]
  /\ loc' = [loc EXCEPT ![t].job_id = job_id]
  /\ resp' = [resp EXCEPT ![t] = NoResp]
  /\ UNCHANGED <<LEADS, heap, JOBS, idVars, httpVars>>

\* any job that exists passes, whatever its status
SkJobReady_exists(job_id) == JobsGet(job_id) # 0

\* lines 575-576 and 600-601: `not job_prev or job_prev.status not in {...}`
\* negated
SkJobReady(job_id) ==
  /\ JobsGet(job_id) # 0
  /\ JOBS[JobsGet(job_id)].status \in {"scanned", "enriched", "scored"}

\* lines 585-589 for one lead
SkEnrichLead(lead, even) ==
  [lead EXCEPT
     !.contact_url =
        IF Falsy(lead.contact_email) /\ Falsy(lead.contact_url)
        THEN IF Truthy(lead.website)
             THEN rstrip_set(OrEmpty(lead.website), {"/"})
                    \o <<"/","c","o","n","t","a","c","t">>
             ELSE NoneS
        ELSE @,
     !.stack_tags =
        IF "TwinCAT" \notin Range(@) /\ lead.company_id \in even
        THEN Append(@, "TwinCAT") ELSE @]

\* start_enrich of the skeleton, lines 572-594; even holds the ids whose
\* hash() is even, which the hash seed of the process decides
SkStartEnrich(t, even) ==
  /\ pc[t] = "sk_enrich"
  /\ IF ~SkJobReady(loc[t].job_id)
     THEN /\ resp' = [resp EXCEPT ![t] = Raised("conflict")]
          /\ UNCHANGED <<LEADS, heap, JOBS>>
     ELSE /\ heap' = [r \in DOMAIN heap |->
                        IF \E i \in DOMAIN LEADS : LEADS[i].ref = r
                        THEN SkEnrichLead(heap[r], even) ELSE heap[r]]
          /\ JOBS' = Append(JOBS, [JobStatus(SkJobId("enrich"), "enriched")
                                     EXCEPT !.found = Len(LEADS)])
          /\ resp' = [resp EXCEPT ![t] =
                        JobAccepted(SkJobId("enrich"), "enriched")]
          /\ UNCHANGED LEADS
  /\ pc' = [pc EXCEPT ![t] = "idle"]
  /\ loc' = [loc EXCEPT ![t] = IdleLoc]
  /\ UNCHANGED <<idVars, httpVars>>

\* lines 608-611 for one lead
SkScoreLead(lead) ==
  LET scored == [lead EXCEPT !.score = simple_score(lead),
                             !.priority_class =
                                classify_priority(simple_score(lead))]
  IN  [scored EXCEPT !.reason = make_reason(scored),
                     !.pitch = make_pitch(scored)]

\* start_score of the skeleton, lines 597-615
SkStartScore(t) ==
  /\ pc[t] = "sk_score"
  /\ IF ~SkJobReady(loc[t].job_id)
     THEN /\ resp' = [resp EXCEPT ![t] = Raised("conflict")]
          /\ UNCHANGED <<LEADS, heap, JOBS>>
     ELSE /\ heap' = [r \in DOMAIN heap |->
                        IF \E i \in DOMAIN LEADS : LEADS[i].ref = r
                        THEN SkScoreLead(heap[r]) ELSE heap[r]]
          /\ JOBS' = Append(JOBS, JobStatus(SkJobId("score"), "scored"))
          /\ resp' = [resp EXCEPT ![t] =
                        JobAccepted(SkJobId("score"), "scored")]
          /\ UNCHANGED LEADS
  /\ pc' = [pc EXCEPT ![t] = "idle"]
  /\ loc' = [loc EXCEPT ![t] = IdleLoc]
  /\ UNCHANGED <<idVars, httpVars>>

SkNames == {Acme}

SkRowsOf == [{DK} -> RowLists(SkNames, {NoneS, AcmeSite}, DK, ETG)]

\* the ids a client may name: those of the registry and one of no job
SkAskable == JobIds \cup {UnknownJob}

SkCids == {LEADS[i].cid : i \in DOMAIN LEADS}

\* the skeleton serving one request at a time: scans, exports, and
\* enrichments and scorings that name any job or none
NextSkeleton ==
  \/ \E req \in {ReqEtg, ReqEtgSiemens}, rowsOf \in SkRowsOf :
       SkStartScan(1, req, rowsOf)
  \/ SkExportLeads(1)
  \/ \E job_id \in SkAskable : SkRequest(1, "sk_enrich", job_id)
  \/ \E job_id \in SkAskable : SkRequest(1, "sk_score", job_id)
  \/ \E even \in SUBSET SkCids : SkStartEnrich(1, even)
  \/ SkStartScore(1)
  \/ \E job_id \in SkAskable : GetJobSkeleton(1, job_id)

SpecSkeleton == Init /\ [][NextSkeleton]_vars

SkReadyStatus == {"scanned", "enriched", "scored"}

\* the status the job of a handler ends in
SkEndStatus(handler) == IF handler = "sk_enrich" THEN "enriched" ELSE "scored"

\* C39: in the skeleton API a start_enrich or start_score whose job_id names
\* no job, or a job whose status is none of scanned, enriched and scored, is
\* answered with the conflict error, registers no job and changes no Lead;
\* any other is accepted, registers one new job of its own that ends in
\* 'enriched' (start_enrich) or 'scored' (start_score), and leaves every job
\* already there, the one it names included, as it was
C39_ConflictUnlessReady ==
  [][\A t \in Threads :
       (pc[t] \in {"sk_enrich", "sk_score"} /\ pc'[t] = "idle") =>
         LET named == {i \in DOMAIN JOBS : JOBS[i].job_id = loc[t].job_id}
             ready == \E i \in named : JOBS[i].status \in SkReadyStatus
         IN  IF ~ready
             THEN /\ resp'[t].kind = "error"
                  /\ resp'[t].status = "conflict"
                  /\ JOBS' = JOBS
                  /\ LEADS' = LEADS
                  /\ heap' = heap
             ELSE /\ Len(JOBS') = Len(JOBS) + 1
                  /\ \A i \in DOMAIN JOBS : JOBS'[i] = JOBS[i]
                  /\ JOBS'[Len(JOBS')].job_id \notin JobIds
                  /\ JOBS'[Len(JOBS')].status = SkEndStatus(pc[t])
                  /\ resp'[t] = JobAccepted(JOBS'[Len(JOBS')].job_id,
                                            SkEndStatus(pc[t]))]_vars

\* a scan job still 'scanned' beside the job of an accepted enrichment or
\* scoring, and a later call just refused with the conflict error
C39_Witness ==
  /\ \E i \in DOMAIN JOBS :
       JOBS[i].job_id.kind = "scan" /\ JOBS[i].status = "scanned"
  /\ \E i \in DOMAIN JOBS :
       \/ JOBS[i].job_id.kind = "enrich" /\ JOBS[i].status = "enriched"
       \/ JOBS[i].job_id.kind = "score" /\ JOBS[i].status = "scored"
  /\ resp[1] = Raised("conflict")
  /\ LEADS # <<>>

\* a job 'exported' is named and the call is refused
C39_WitnessExported ==
  /\ \E i \in DOMAIN JOBS : JOBS[i].status = "exported"
  /\ \A i \in DOMAIN JOBS : JOBS[i].status \notin SkReadyStatus
  /\ resp[1] = Raised("conflict")


============================================================================
